---- MODULE Spec2Model ----
(***************************************************************************)
(* Model of the completion streaming and contract-enforcement pipeline of  *)
(* the prompt-engineering repository: the SSE decoder and parser, the      *)
(* retrying request executor, the output contract validator / normalizer,  *)
(* the repair-and-fallback orchestration and the NDJSON frames written by  *)
(* the generate handler.                                                   *)
(*                                                                         *)
(* Text is modelled as a sequence of atoms.  An atom is either a single    *)
(* character that the program's regular expressions treat specially        *)
(* (newline, space, '#', ':' ...) or a whole token that they treat as a    *)
(* unit (the code fence, a field label, a heading phrase, a generic word). *)
(***************************************************************************)
EXTENDS Integers, Sequences, FiniteSets, TLC

(***************************************************************************)
(* Atoms                                                                   *)
(***************************************************************************)
NL == "\n"
CR == "\r"
SP == " "
NBSP == "nbsp"
HASH == "#"
\* the three-backtick code fence, and the fence as buildFallbackCanonicalOutput escapes it
FENCE == "<fence>"
ESCFENCE == "<escaped-fence>"
COLON == ":"
LPAREN == "("
RPAREN == ")"
WORD == "x"
TRUNCATED == "...[truncated]"

\* src/constants.tsx REQUIRED_PROMPT_CONTRACT_ITEMS
REQUIRED_PROMPT_CONTRACT_ITEMS ==
  << "Role", "Objective", "Context", "Constraints", "Output Format",
     "Quality Criteria", "Failure Handling" >>

TargetAgents == {"universal", "chatgpt", "gemini", "claude-code", "kiro", "kimi"}

TARGET_AGENT_LABEL(targetAgent) ==
  CASE targetAgent = "universal" -> "Universal"
    [] targetAgent = "chatgpt" -> "ChatGPT"
    [] targetAgent = "gemini" -> "Gemini"
    [] targetAgent = "claude-code" -> "Claude Code"
    [] targetAgent = "kiro" -> "Kiro"
    [] targetAgent = "kimi" -> "Kimi"

\* Lower-case form of an atom: the i flag of the regular expressions.
Lower(a) ==
  CASE a = "Role" -> "role"
    [] a = "Objective" -> "objective"
    [] a = "Context" -> "context"
    [] a = "Constraints" -> "constraints"
    [] a = "Output Format" -> "output format"
    [] a = "Quality Criteria" -> "quality criteria"
    [] a = "Failure Handling" -> "failure handling"
    [] a = "Final Prompt" -> "final prompt"
    [] a = "(Universal Core)" -> "(universal core)"
    [] a = "Adapter Block" -> "adapter block"
    [] a = "(Target:" -> "(target:"
    [] a = "Why This Prompt Is Powerful" -> "why this prompt is powerful"
    [] a = "Prompt Contract Checklist" -> "prompt contract checklist"
    [] a = "Text" -> "text"
    [] OTHER -> a

LabelAtoms == {REQUIRED_PROMPT_CONTRACT_ITEMS[k] : k \in 1..7}
AgentLabelAtoms == {TARGET_AGENT_LABEL(t) : t \in TargetAgents}
FenceTagAtoms == {"text", "txt", "markdown", "Text"}
BulletAtoms == {"-", "*", "1.", "1)"}
FinalPhraseAtoms == {"Final Prompt", "final prompt"}
AdapterPhraseAtoms == {"Adapter Block", "adapter block", "target adapter", "adapter"}
WhyPhraseAtoms ==
  {"Why This Prompt Is Powerful", "why this prompt is powerful",
   "why this prompt works", "optimization notes"}
ChecklistPhraseAtoms ==
  {"Prompt Contract Checklist", "prompt contract checklist",
   "contract checklist", "quality checklist"}

Atoms ==
  {NL, CR, SP, NBSP, HASH, FENCE, ESCFENCE, COLON, LPAREN, RPAREN, WORD, TRUNCATED,
   "py", "role", "(Universal Core)", "(universal core)", "(Target:", "(target:"}
  \cup LabelAtoms \cup AgentLabelAtoms \cup FenceTagAtoms \cup BulletAtoms
  \cup FinalPhraseAtoms \cup AdapterPhraseAtoms \cup WhyPhraseAtoms
  \cup ChecklistPhraseAtoms

\* \s of the regular expressions, and what String.prototype.trim strips.
WsAtoms == {NL, CR, SP, NBSP}
\* where ^ and $ match under the m flag
LineTerminators == {NL, CR}
NotNl == Atoms \ {NL}
CI(a) == {b \in Atoms : Lower(b) = Lower(a)}

(***************************************************************************)
(* Sequence helpers                                                        *)
(***************************************************************************)
Min(S) == CHOOSE m \in S : \A o \in S : m <= o
Max(S) == CHOOSE m \in S : \A o \in S : m >= o

\* s.slice(from - 1, to - 1) with 1-based, end-exclusive positions
Slice(s, from, to) == SubSeq(s, from, to - 1)

RECURSIVE Flatten(_)
Flatten(ss) == IF ss = << >> THEN << >> ELSE Head(ss) \o Flatten(Tail(ss))

RECURSIVE Join(_, _)
Join(ss, sep) ==
  IF ss = << >> THEN << >>
  ELSE IF Len(ss) = 1 THEN Head(ss)
  ELSE Head(ss) \o sep \o Join(Tail(ss), sep)

\* String.prototype.trim
Trim(s) ==
  LET between(keep) == IF keep = {} THEN << >> ELSE SubSeq(s, Min(keep), Max(keep))
  IN between({i \in 1..Len(s) : s[i] \notin WsAtoms})

(***************************************************************************)
(* A small backtracking matcher.  A pattern is a sequence of items         *)
(* [t |-> kind, S |-> set of atoms]; Ends(p, k, s, i) is the set of        *)
(* positions at which items k.. of p can stop when started at position i.  *)
(***************************************************************************)
One(S) == [t |-> "one", S |-> S]
Opt(S) == [t |-> "opt", S |-> S]
Star(S) == [t |-> "star", S |-> S]
Plus(S) == [t |-> "plus", S |-> S]
Bol == [t |-> "bol", S |-> {}]        \* ^ with the m flag
Eol == [t |-> "eol", S |-> {}]        \* $ with the m flag
Eos == [t |-> "eos", S |-> {}]        \* $ without the m flag
BosOrNl == [t |-> "bosnl", S |-> {}]  \* (^|\n) without the m flag
NotAhead(S) == [t |-> "not", S |-> S] \* (?!...)

\* end of the run of atoms of S that starts at i (first position not in S)
RunEnd(S, s, i) ==
  LET first(stops) == IF stops = {} THEN Len(s) + 1 ELSE Min(stops)
  IN first({j \in i..Len(s) : s[j] \notin S})

RECURSIVE Ends(_, _, _, _)
Ends(p, k, s, i) ==
  IF k > Len(p) THEN {i}
  ELSE
    LET it == p[k]
        n == Len(s)
        hit == i <= n /\ s[i] \in it.S
    IN CASE it.t = "one" -> IF hit THEN Ends(p, k + 1, s, i + 1) ELSE {}
         [] it.t = "opt" ->
              Ends(p, k + 1, s, i) \cup (IF hit THEN Ends(p, k + 1, s, i + 1) ELSE {})
         [] it.t = "star" ->
              UNION {Ends(p, k + 1, s, j) : j \in i..RunEnd(it.S, s, i)}
         [] it.t = "plus" ->
              UNION {Ends(p, k + 1, s, j) : j \in (i + 1)..RunEnd(it.S, s, i)}
         [] it.t = "bol" ->
              IF i = 1 \/ (i - 1 <= n /\ s[i - 1] \in LineTerminators)
              THEN Ends(p, k + 1, s, i) ELSE {}
         [] it.t = "eol" ->
              IF i = n + 1 \/ (i <= n /\ s[i] \in LineTerminators)
              THEN Ends(p, k + 1, s, i) ELSE {}
         [] it.t = "eos" -> IF i = n + 1 THEN Ends(p, k + 1, s, i) ELSE {}
         [] it.t = "bosnl" ->
              (IF i = 1 THEN Ends(p, k + 1, s, i) ELSE {})
              \cup (IF i <= n /\ s[i] = NL THEN Ends(p, k + 1, s, i + 1) ELSE {})
         [] it.t = "not" -> IF hit THEN {} ELSE Ends(p, k + 1, s, i)

MatchesAt(p, s, i) == Ends(p, 1, s, i) # {}
\* RegExp.prototype.test
Test(p, s) == \E i \in 1..(Len(s) + 1) : MatchesAt(p, s, i)
\* start of the leftmost match at or after position from, 0 if there is none
FirstMatch(p, s, from) ==
  LET first(starts) == IF starts = {} THEN 0 ELSE Min(starts)
  IN first({i \in from..(Len(s) + 1) : MatchesAt(p, s, i)})

\* order-preserving subsequence of s at the positions lo..hi that are in idx
RECURSIVE PickRange(_, _, _, _)
PickRange(s, idx, lo, hi) ==
  IF lo > hi THEN << >>
  ELSE IF lo = hi THEN (IF lo \in idx THEN << s[lo] >> ELSE << >>)
  ELSE LET mid == (lo + hi) \div 2
       IN PickRange(s, idx, lo, mid) \o PickRange(s, idx, mid + 1, hi)

Pick(s, idx) == PickRange(s, idx, 1, Len(s))

\* String.prototype.replace with a g-flag pattern whose matches are never empty:
\* every leftmost greedy match at or after position from is replaced by repl
RECURSIVE ReplaceAll(_, _, _, _)
ReplaceAll(p, s, from, repl) ==
  LET replaceAt(i) ==
        IF i = 0 THEN Slice(s, from, Len(s) + 1)
        ELSE Slice(s, from, i) \o repl \o ReplaceAll(p, s, Max(Ends(p, 1, s, i)), repl)
  IN replaceAt(FirstMatch(p, s, from))

\* String.prototype.replace without the g flag: the first match only
ReplaceFirst(p, s, repl) ==
  LET replaceAt(i) ==
        IF i = 0 THEN s
        ELSE Slice(s, 1, i) \o repl \o Slice(s, Max(Ends(p, 1, s, i)), Len(s) + 1)
  IN replaceAt(FirstMatch(p, s, 1))

(***************************************************************************)
(* promptStability: headings, section and code block extraction            *)
(***************************************************************************)
FINAL_PROMPT_HEADING == << HASH, HASH, SP, "Final Prompt", SP, "(Universal Core)" >>
WHY_HEADING == << HASH, HASH, SP, "Why This Prompt Is Powerful" >>
CHECKLIST_HEADING == << HASH, HASH, SP, "Prompt Contract Checklist" >>

buildAdapterHeading(targetAgent) ==
  << HASH, HASH, SP, "Adapter Block", SP, "(Target:", SP,
     TARGET_AGENT_LABEL(targetAgent), RPAREN >>

\* /\r\n?/g -> \n
normalizeLineEndings(value) ==
  LET kept == {i \in 1..Len(value) : ~(value[i] = NL /\ i > 1 /\ value[i - 1] = CR)}
      lf == [i \in 1..Len(value) |-> IF value[i] = CR THEN NL ELSE value[i]]
  IN Pick(lf, kept)

\* ##\s*Final Prompt\s*\(Universal Core\)            (flag i)
FinalHeadPattern ==
  << One({HASH}), One({HASH}), Star(WsAtoms), One(CI("Final Prompt")),
     Star(WsAtoms), One(CI("(Universal Core)")) >>

\* (?=\n##\s+[^\n]+|\s*$)
SectionStopsAt(value, e) ==
  \/ MatchesAt(<< One({NL}), One({HASH}), One({HASH}), Plus(WsAtoms), Plus(NotNl) >>,
               value, e)
  \/ MatchesAt(<< Star(WsAtoms), Eos >>, value, e)

extractFinalPromptSection(value) ==
  LET \* the lazy body ends at the first position after the heading where the
      \* lookahead holds
      sectionFrom(i, h) ==
        Slice(value, i, Min({j \in h..(Len(value) + 1) : SectionStopsAt(value, j)}))
      sectionAt(i) ==
        IF i = 0 THEN << >> ELSE sectionFrom(i, Max(Ends(FinalHeadPattern, 1, value, i)))
  IN sectionAt(FirstMatch(FinalHeadPattern, value, 1))

\* ```(?:text|txt|markdown)?\n        (flag i)
CodeBlockOpenPattern == << One({FENCE}), Opt(FenceTagAtoms), One({NL}) >>
\* ```(?:text|txt|markdown)?\n([\s\S]*?)```
CodeBlockPattern == CodeBlockOpenPattern \o << Star(Atoms), One({FENCE}) >>

hasCodeBlock(value) == FirstMatch(CodeBlockPattern, value, 1) # 0

\* capture group 1 of the first code block match
codeBlockBody(value) ==
  LET bodyFrom(cs) == Slice(value, cs, Min({j \in cs..Len(value) : value[j] = FENCE}))
      bodyAt(i) == bodyFrom(Max(Ends(CodeBlockOpenPattern, 1, value, i)))
  IN bodyAt(FirstMatch(CodeBlockPattern, value, 1))

extractCorePromptText(value) ==
  LET bodyOr(body, codeBlockSource) ==
        IF body # << >> THEN Trim(body) ELSE Trim(codeBlockSource)
      coreOf(codeBlockSource) ==
        IF hasCodeBlock(codeBlockSource)
        THEN bodyOr(codeBlockBody(codeBlockSource), codeBlockSource)
        ELSE Trim(codeBlockSource)
      sourceOf(finalPromptSection) ==
        IF finalPromptSection # << >> THEN finalPromptSection ELSE value
  IN coreOf(sourceOf(extractFinalPromptSection(value)))

truncate(value, maxChars) ==
  IF Len(value) <= maxChars THEN value
  ELSE SubSeq(value, 1, maxChars) \o << NL, TRUNCATED >>

(***************************************************************************)
(* normalizeGeneratedPromptOutput                                          *)
(***************************************************************************)
\* ^#{1,3}\s*<phrase>[^\n]*$           (flags g, i, m)
HeadingVariantPattern_twoHashesOnly(phrases) ==
  << Bol, One({HASH}), One({HASH}), Star(WsAtoms), One(phrases), Star(NotNl), Eol >>
HeadingVariantPattern(phrases) ==
  << Bol, One({HASH}), Opt({HASH}), Opt({HASH}), Star(WsAtoms), One(phrases),
     Star(NotNl), Eol >>

\* ^##\s*Adapter Block \(Target:\s*[^\n]+\)\s*$      (flags i, m)
AdapterHeadingPattern ==
  << Bol, One({HASH}), One({HASH}), Star(WsAtoms), One(CI("Adapter Block")), One({SP}),
     One(CI("(Target:")), Star(WsAtoms), Plus(NotNl), One({RPAREN}), Star(WsAtoms), Eol >>

\* (##\s*Final Prompt\s*\(Universal Core\)\s*\n)```(?!text|txt|markdown)([^\n]*)\n
UntaggedFencePattern ==
  FinalHeadPattern \o
  << Star(WsAtoms), One({NL}), One({FENCE}), NotAhead(FenceTagAtoms), Star(NotNl),
     One({NL}) >>

\* .replace(/\u00a0/g, ' ')
replaceNbsp(value) == [i \in 1..Len(value) |-> IF value[i] = NBSP THEN SP ELSE value[i]]

\* .replace(/[ \t]+\n/g, '\n')
stripTrailingSpaces(value) ==
  Pick(value, {i \in 1..Len(value) :
                 ~(value[i] = SP /\ LET e == RunEnd({SP}, value, i)
                                    IN e <= Len(value) /\ value[e] = NL)})

\* .replace(/\n{3,}/g, '\n\n')
collapseBlankLines(value) ==
  Pick(value, {i \in 1..Len(value) :
                 ~(i > 2 /\ value[i] = NL /\ value[i - 1] = NL /\ value[i - 2] = NL)})

\* the first fence directly under the Final Prompt heading gets the text tag
rewriteUntaggedFence(value) ==
  LET rewriteAt(i) ==
        IF i = 0 THEN value
        ELSE Slice(value, 1, RunEnd(WsAtoms, value, Max(Ends(FinalHeadPattern, 1, value, i))))
             \o << FENCE, "text", NL >>
             \o Slice(value, Max(Ends(UntaggedFencePattern, 1, value, i)), Len(value) + 1)
  IN rewriteAt(FirstMatch(UntaggedFencePattern, value, 1))

normalizeGeneratedPromptOutput(rawOutput, targetAgent) ==
  LET o1 == Trim(normalizeLineEndings(rawOutput))
      o2 == Trim(collapseBlankLines(stripTrailingSpaces(replaceNbsp(o1))))
      o3 == ReplaceAll(HeadingVariantPattern(FinalPhraseAtoms), o2, 1, FINAL_PROMPT_HEADING)
      o4 == ReplaceAll(HeadingVariantPattern(AdapterPhraseAtoms), o3, 1,
                       buildAdapterHeading(targetAgent))
      o5 == ReplaceAll(HeadingVariantPattern(WhyPhraseAtoms), o4, 1, WHY_HEADING)
      o6 == ReplaceAll(HeadingVariantPattern(ChecklistPhraseAtoms), o5, 1, CHECKLIST_HEADING)
      o7 == ReplaceFirst(AdapterHeadingPattern, o6, buildAdapterHeading(targetAgent))
  IN Trim(rewriteUntaggedFence(o7))

(***************************************************************************)
(* validateGeneratedPromptOutput                                           *)
(***************************************************************************)
requiredHeadings(targetAgent) ==
  << FINAL_PROMPT_HEADING, buildAdapterHeading(targetAgent), WHY_HEADING,
     CHECKLIST_HEADING >>

\* new RegExp(`^${escapeRegExp(heading)}\\s*$`, 'im')
HeadingPattern(heading) ==
  << Bol >> \o [k \in 1..Len(heading) |-> One(CI(heading[k]))] \o << Star(WsAtoms), Eol >>

\* new RegExp(`(^|\\n)\\s*(?:[-*]|\\d+[.)])?\\s*${escapeRegExp(item)}\\s*:`, 'i')
ItemPattern(item) ==
  << BosOrNl, Star(WsAtoms), Opt(BulletAtoms), Star(WsAtoms), One(CI(item)),
     Star(WsAtoms), One({COLON}) >>

\* Array.prototype.filter: the elements of list that satisfy keep, in order
FilterSeq(list, keep(_)) == Pick(list, {k \in 1..Len(list) : keep(list[k])})

\* the isValid field of the result
isValidOf_codeBlockIgnored(missingHeadings, missingContractItems, missingTextCodeBlock) ==
  missingHeadings = << >> /\ missingContractItems = << >>
isValidOf(missingHeadings, missingContractItems, missingTextCodeBlock) ==
  missingHeadings = << >> /\ missingContractItems = << >> /\ ~missingTextCodeBlock

validateGeneratedPromptOutput(output, targetAgent) ==
  LET headingMissing(heading) == ~Test(HeadingPattern(heading), output)
      itemsMissingIn(promptBody) ==
        FilterSeq(REQUIRED_PROMPT_CONTRACT_ITEMS,
                  LAMBDA item : ~Test(ItemPattern(item), promptBody))
      result(missingHeadings, missingContractItems, missingTextCodeBlock) ==
        [isValid |-> isValidOf(missingHeadings, missingContractItems, missingTextCodeBlock),
         missingHeadings |-> missingHeadings,
         missingContractItems |-> missingContractItems,
         missingTextCodeBlock |-> missingTextCodeBlock]
  IN result(FilterSeq(requiredHeadings(targetAgent), headingMissing),
            itemsMissingIn(extractCorePromptText(output)),
            ~hasCodeBlock(extractFinalPromptSection(output)))

(***************************************************************************)
(* buildFallbackCanonicalOutput                                            *)
(***************************************************************************)
FALLBACK_DRAFT_MAX_CHARS == 6000
FALLBACK_REQUEST_MAX_CHARS == 500

\* .replace(/```/g, '``\\`')
escapeFences(value) == [i \in 1..Len(value) |-> IF value[i] = FENCE THEN ESCFENCE ELSE value[i]]

ContractLine(item) == << item, COLON, SP, WORD >>
ChecklistLine(item) == << "-", SP, item, COLON, SP, WORD >>

buildFallbackCanonicalOutput(draftOutput, userRequest, targetAgent) ==
  LET orDefault(text) == IF text # << >> THEN text ELSE << WORD, SP, WORD >>
      safeDraftCore ==
        orDefault(escapeFences(truncate(extractCorePromptText(draftOutput),
                                        FALLBACK_DRAFT_MAX_CHARS)))
      conciseUserRequest == truncate(orDefault(Trim(userRequest)), FALLBACK_REQUEST_MAX_CHARS)
  IN Join(
       << FINAL_PROMPT_HEADING,
          << FENCE, "text" >>,
          ContractLine("Role"),
          << "Objective", COLON, SP, WORD, SP, LPAREN >> \o conciseUserRequest \o << RPAREN >>,
          ContractLine("Context"),
          ContractLine("Constraints"),
          ContractLine("Output Format"),
          ContractLine("Quality Criteria"),
          ContractLine("Failure Handling"),
          << >>,
          << WORD, SP, WORD, COLON >>,
          safeDraftCore,
          << FENCE >>,
          buildAdapterHeading(targetAgent),
          << FENCE, "text" >>,
          << WORD, SP, WORD >>,
          << WORD, SP, WORD >>,
          << FENCE >>,
          WHY_HEADING,
          << "-", SP, WORD >>,
          << "-", SP, WORD >>,
          << "-", SP, WORD >>,
          CHECKLIST_HEADING >>
       \o [k \in 1..7 |-> ChecklistLine(REQUIRED_PROMPT_CONTRACT_ITEMS[k])],
       << NL >>)

(***************************************************************************)
(* openaiCompatible: the event stream decoder                              *)
(***************************************************************************)
\* chunkBuffer.indexOf('\n\n', startIndex), 1-based; 0 when there is none
indexOfDelimiter(chunkBuffer, startIndex) ==
  LET hits == {i \in startIndex..(Len(chunkBuffer) - 1) :
                 chunkBuffer[i] = NL /\ chunkBuffer[i + 1] = NL}
  IN IF hits = {} THEN 0 ELSE Min(hits)

\* next startIndex of the loop of consumeSseEvents
nextStartIndex_skipsOne(delimiterIndex) == delimiterIndex + 3
nextStartIndex(delimiterIndex) == delimiterIndex + 2

\* the event pushed for a delimited segment (none when it trims to nothing)
eventOfSegment_untrimmed(segment) == IF Trim(segment) # << >> THEN << segment >> ELSE << >>
eventOfSegment(segment) == IF Trim(segment) # << >> THEN << Trim(segment) >> ELSE << >>

RECURSIVE consumeLoop(_, _, _)
consumeLoop(chunkBuffer, startIndex, events) ==
  LET delimiterIndex == indexOfDelimiter(chunkBuffer, startIndex)
  IN IF delimiterIndex = 0
     THEN [events |-> events, rest |-> Slice(chunkBuffer, startIndex, Len(chunkBuffer) + 1)]
     ELSE consumeLoop(chunkBuffer, nextStartIndex(delimiterIndex),
                      events \o eventOfSegment(Slice(chunkBuffer, startIndex, delimiterIndex)))

consumeSseEvents(chunkBuffer) == consumeLoop(chunkBuffer, 1, << >>)

(***************************************************************************)
(* openaiCompatible: the completion event parser                           *)
(*                                                                         *)
(* A JSON text is one atom (or two fragment atoms on successive data       *)
(* lines); JsonParse gives the value it decodes to.  A JSON value is a     *)
(* record [j |-> kind, ...]; Undefined is what a missing property reads as.*)
(***************************************************************************)
DATA == "data:"
DONE_SENTINEL == "[DONE]"

Undefined == [j |-> "undefined"]
JNull == [j |-> "null"]
JNum == [j |-> "number"]
JStr(text) == [j |-> "string", v |-> text]
JArr(items) == [j |-> "array", v |-> items]
JObj(fields) == [j |-> "object", f |-> fields]

\* value.key (undefined for a missing key; primitives have no own properties)
Get(value, key) ==
  IF value.j = "object" /\ key \in DOMAIN value.f THEN value.f[key] ELSE Undefined

\* error messages are word sequences
MsgTimeout == << "Gateway", "timeout" >>
MsgBadRequest == << "Bad", "request" >>
\* the messages of the TypeErrors the runtime throws for a property read on null
\* and for a for...of over a value that is not iterable
MsgReadOfNull == << "Cannot", "read", "properties", "of", "null" >>
MsgNotIterable == << "choices", "is", "not", "iterable" >>

ChoiceDelta(text) == JObj([delta |-> JObj([content |-> JStr(text)])])
ChoiceMessage(text) == JObj([message |-> JObj([content |-> JStr(text)])])
ChoiceStop == JObj([delta |-> JObj([content |-> Undefined]), finish_reason |-> JStr(<< "stop" >>)])
ChoiceParts(text) ==
  JObj([delta |-> JObj([content |-> JArr(<< JObj([text |-> JStr(text)]), JNum >>)])])

\* the JSON texts of the model and the values they decode to
JsonTexts ==
  [ chunkA |-> JObj([choices |-> JArr(<< ChoiceDelta(<< "A" >>) >>)]),
    chunkB |-> JObj([choices |-> JArr(<< ChoiceMessage(<< "B" >>) >>)]),
    chunkSp |-> JObj([choices |-> JArr(<< ChoiceDelta(<< SP >>) >>)]),
    chunkParts |-> JObj([choices |-> JArr(<< ChoiceParts(<< "A" >>), ChoiceDelta(<< "B" >>) >>)]),
    stop |-> JObj([choices |-> JArr(<< ChoiceStop >>)]),
    errTimeout |-> JObj([error |-> JObj([message |-> JStr(MsgTimeout)])]),
    errBad |-> JObj([error |-> JStr(MsgBadRequest)]),
    errWithText |-> JObj([error |-> JObj([message |-> JStr(MsgBadRequest)]),
                          choices |-> JArr(<< ChoiceDelta(<< "A" >>) >>)]),
    empty |-> JObj([choices |-> JArr(<< >>)]),
    noChoices |-> JObj([id |-> JNum]),
    chunkStop |-> JObj([choices |-> JArr(<< JObj([delta |-> JObj([content |-> JStr(<< "A" >>)]),
                                                   finish_reason |-> JStr(<< "stop" >>)]) >>)]),
    stopThenChunk |-> JObj([choices |-> JArr(<< ChoiceStop, ChoiceMessage(<< "B" >>) >>)]),
    errBlank |-> JObj([error |-> JStr(<< SP >>), choices |-> JArr(<< ChoiceDelta(<< "A" >>) >>)]),
    errNull |-> JObj([error |-> JNull, choices |-> JArr(<< ChoiceStop >>)]),
    null |-> JNull,
    number |-> JNum,
    string |-> JStr(<< "A" >>),
    array |-> JArr(<< ChoiceDelta(<< "A" >>) >>),
    choicesNull |-> JObj([choices |-> JNull]),
    choicesNumber |-> JObj([choices |-> JNum]),
    choicesObject |-> JObj([choices |-> JObj([delta |-> JObj([content |-> JStr(<< "A" >>)])])]),
    choicesString |-> JObj([choices |-> JStr(<< "A", "B" >>)]),
    entryNull |-> JObj([choices |-> JArr(<< ChoiceDelta(<< "A" >>), JNull >>)]),
    entryNumber |-> JObj([choices |-> JArr(<< JNum, ChoiceDelta(<< "A" >>) >>)]),
    deltaNull |-> JObj([choices |-> JArr(<< JObj([delta |-> JNull,
                                                  message |-> JObj([content |-> JStr(<< "B" >>)])]) >>)]),
    errNullEntry |-> JObj([error |-> JStr(MsgBadRequest), choices |-> JArr(<< JNull >>)]) ]

JsonAtoms == DOMAIN JsonTexts
\* two fragments that decode, joined by white space, to the chunkA object
JHEAD == "{head"
JTAIL == "tail}"

\* JSON.parse: [ok |-> FALSE] when it throws
JsonParse(payload) ==
  LET tokens == SelectSeq(payload, LAMBDA a : a \notin {NL, CR, SP})
  IN IF Len(tokens) = 1 /\ tokens[1] \in JsonAtoms
     THEN [ok |-> TRUE, value |-> JsonTexts[tokens[1]]]
     ELSE IF tokens = << JHEAD, JTAIL >> THEN [ok |-> TRUE, value |-> JsonTexts.chunkA]
     ELSE [ok |-> FALSE]

IsBlank(text) == Trim(text) = << >>

\* parseErrorMessage: the message, or << >> for null
parseErrorMessage(value) ==
  IF value.j = "string" /\ ~IsBlank(value.v) THEN value.v
  ELSE IF value.j = "object" /\ Get(value, "message").j = "string"
          /\ ~IsBlank(Get(value, "message").v)
       THEN Get(value, "message").v
       ELSE << >>

parseTextContent(value) ==
  IF value.j = "string" THEN value.v
  ELSE IF value.j = "array"
       THEN Flatten([k \in 1..Len(value.v) |->
              LET entry == value.v[k]
              IN IF entry.j = "string" THEN entry.v
                 ELSE IF entry.j = "object" /\ Get(entry, "text").j = "string"
                      THEN Get(entry, "text").v
                      ELSE << >>])
       ELSE << >>

\* rawEvent.split('\n')
RECURSIVE SplitLines(_)
SplitLines(text) ==
  LET nls == {i \in 1..Len(text) : text[i] = NL}
  IN IF nls = {} THEN << text >>
     ELSE << Slice(text, 1, Min(nls)) >> \o SplitLines(Slice(text, Min(nls) + 1, Len(text) + 1))

TrimEnd(s) ==
  LET keep == {i \in 1..Len(s) : s[i] \notin WsAtoms}
  IN IF keep = {} THEN << >> ELSE SubSeq(s, 1, Max(keep))
TrimStart(s) ==
  LET keep == {i \in 1..Len(s) : s[i] \notin WsAtoms}
  IN IF keep = {} THEN << >> ELSE SubSeq(s, Min(keep), Len(s))

\* the data lines of a frame, marker stripped
dataLinesOf(rawEvent) ==
  LET lines == SplitLines(rawEvent)
      trimmed == [k \in 1..Len(lines) |-> TrimEnd(lines[k])]
      flagged == SelectSeq(trimmed, LAMBDA line : line # << >> /\ line[1] = DATA)
  IN [k \in 1..Len(flagged) |-> TrimStart(Tail(flagged[k]))]

NoEvent == [type |-> "none"]
DoneEvent == [type |-> "done"]
ChunkEvent(text) == [type |-> "chunk", text |-> text]
ErrorEvent(message) == [type |-> "error", message |-> message]
\* the call did not return: it threw a TypeError with this message
Threw(message) == [type |-> "threw", message |-> message]

\* a property read on null (or undefined) throws
readThrows(value) == value.j \in {"null", "undefined"}
\* value ?? []
orEmptyList(value) == IF value.j \in {"null", "undefined"} THEN JArr(<< >>) ELSE value
\* whether for...of accepts the value: arrays and strings are iterable
isIterable(value) == value.j \in {"array", "string"}
\* the values for...of yields: the items of an array, the characters of a string
iterate(value) ==
  IF value.j = "array" THEN value.v
  ELSE [k \in 1..Len(value.v) |-> JStr(<< value.v[k] >>)]

\* the text and the finish marker summed over the choices
choicesOf(parsed) == orEmptyList(Get(parsed, "choices"))
choiceText(choice) ==
  LET deltaText == parseTextContent(Get(Get(choice, "delta"), "content"))
      messageText == parseTextContent(Get(Get(choice, "message"), "content"))
  IN IF deltaText # << >> THEN deltaText ELSE messageText
choiceFinished(choice) ==
  LET r == Get(choice, "finish_reason") IN r.j = "string" /\ r.v # << >>

\* the for loop over the choices and the returns after it
eventOfChoices(choices) ==
  LET fullText == Flatten([k \in 1..Len(choices) |-> choiceText(choices[k])])
      hasFinishedChoice == \E k \in 1..Len(choices) : choiceFinished(choices[k])
  IN IF \E k \in 1..Len(choices) : readThrows(choices[k]) THEN Threw(MsgReadOfNull)
     ELSE IF fullText # << >> THEN ChunkEvent(fullText)
     ELSE IF hasFinishedChoice THEN DoneEvent
     ELSE NoEvent

\* the function from the decoded value on
eventOfParsed(parsed) ==
  IF readThrows(parsed) THEN Threw(MsgReadOfNull)
  ELSE IF parseErrorMessage(Get(parsed, "error")) # << >>
       THEN ErrorEvent(parseErrorMessage(Get(parsed, "error")))
       ELSE IF ~isIterable(choicesOf(parsed)) THEN Threw(MsgNotIterable)
            ELSE eventOfChoices(iterate(choicesOf(parsed)))

parseOpenAICompatibleSseEvent(rawEvent) ==
  LET dataLines == dataLinesOf(rawEvent)
      payload == Join(dataLines, << NL >>)
      decoded == JsonParse(payload)
  IN IF dataLines = << >> THEN NoEvent
     ELSE IF payload = << DONE_SENTINEL >> THEN DoneEvent
     ELSE IF ~decoded.ok THEN NoEvent
     ELSE eventOfParsed(decoded.value)

(***************************************************************************)
(* openaiCompatibleClient: failure classification and one attempt          *)
(***************************************************************************)
\* TRANSIENT_MESSAGE_PATTERN: the message holds one of the keywords as a word
TransientKeywords ==
  {"fetch failed", "network", "timed out", "timeout", "temporarily unavailable",
   "connection reset", "econnreset", "socket hang up"}
TRANSIENT_MESSAGE_PATTERN(message) ==
  \E i \in 1..Len(message) : message[i] \in TransientKeywords

isTransientStatusCode(statusCode) ==
  IF statusCode = 0 THEN FALSE
  ELSE statusCode = 408 \/ statusCode = 425 \/ statusCode = 429 \/ statusCode >= 500

\* an Error object: statusCode 0 is undefined; a raw (non-provider) error has no
\* transient property, which reads as falsy
toProviderError(message, statusCode, transient) ==
  [message |-> message, statusCode |-> statusCode, transient |-> transient]
RawError(message) == [message |-> message, statusCode |-> 0, transient |-> FALSE]
NoError == [message |-> << >>, statusCode |-> 0, transient |-> FALSE]

isTransientError(error) ==
  IF error.transient THEN TRUE ELSE TRANSIENT_MESSAGE_PATTERN(error.message)

\* buffer.replace(/\r\n/g, '\n')
replaceCrLf(buffer) ==
  Pick(buffer, {i \in 1..Len(buffer) :
                  ~(buffer[i] = CR /\ i < Len(buffer) /\ buffer[i + 1] = NL)})

\* the accumulator an attempt starts with
initialFullText_carried(previousFullText) == previousFullText
initialFullText(previousFullText) == << >>

\* the for loop of requestOnce over the events of one read: the accumulator and
\* done flag after it, and the error it threw (if any)
RECURSIVE processEvents(_, _, _, _)
processEvents(events, k, fullText, doneSent) ==
  IF k > Len(events) THEN [fullText |-> fullText, doneSent |-> doneSent, threw |-> FALSE,
                           error |-> NoError]
  ELSE LET parsed == parseOpenAICompatibleSseEvent(events[k])
       IN CASE parsed.type = "none" -> processEvents(events, k + 1, fullText, doneSent)
            [] parsed.type = "chunk" ->
                 processEvents(events, k + 1, fullText \o parsed.text, doneSent)
            [] parsed.type = "error" ->
                 [fullText |-> fullText, doneSent |-> doneSent, threw |-> TRUE,
                  error |-> toProviderError(parsed.message, 0,
                                            TRANSIENT_MESSAGE_PATTERN(parsed.message))]
            [] parsed.type = "done" -> processEvents(events, k + 1, fullText, TRUE)
            [] parsed.type = "threw" ->
                 [fullText |-> fullText, doneSent |-> doneSent, threw |-> TRUE,
                  error |-> RawError(parsed.message)]

\* the code after the read loop: the frame left in the buffer, then the result
finishAttempt(buffer, fullText, doneSent) ==
  LET parsed == IF ~doneSent /\ Trim(buffer) # << >>
                THEN parseOpenAICompatibleSseEvent(Trim(buffer)) ELSE NoEvent
  IN IF parsed.type = "error"
     THEN [threw |-> TRUE, text |-> << >>,
           error |-> toProviderError(parsed.message, 0,
                                     TRANSIENT_MESSAGE_PATTERN(parsed.message))]
     ELSE IF parsed.type = "threw"
     THEN [threw |-> TRUE, text |-> << >>, error |-> RawError(parsed.message)]
     ELSE [threw |-> FALSE, error |-> NoError,
           text |-> Trim(IF parsed.type = "chunk" THEN fullText \o parsed.text ELSE fullText)]

BACKOFF_CAP_MS == 2000
maxAttemptsOf(maxRetries) == IF maxRetries + 1 > 1 THEN maxRetries + 1 ELSE 1
backoffMs(retryBaseDelayMs, attempt) ==
  IF retryBaseDelayMs * attempt < BACKOFF_CAP_MS THEN retryBaseDelayMs * attempt
  ELSE BACKOFF_CAP_MS

\* the catch block of requestOpenAICompatibleCompletion: rethrow or back off
shouldRethrow_anyFailureRetried(attempt, maxAttempts, error) == attempt >= maxAttempts
shouldRethrow(attempt, maxAttempts, error) ==
  attempt >= maxAttempts \/ ~isTransientError(error)

(***************************************************************************)
(* State                                                                   *)
(***************************************************************************)
VARIABLES
  ssePc,       \* decoder check: "input" before, "consumed" after consumeSseEvents
  sseBuffer,   \* the buffer handed to consumeSseEvents
  sseEvents,   \* the events it returned
  sseRest,     \* the rest it returned
  exPc,        \* requestOpenAICompatibleCompletion: "connecting" (awaiting fetch),
               \* "reading" (awaiting reader.read), "sleeping", "returned", "thrown"
  exMaxRetries,   \* options.maxRetries
  exBaseDelay,    \* options.retryBaseDelayMs
  exAttempt,      \* the loop variable attempt
  exStream,       \* the part of the response body not yet delivered by a read
  exBuffer,       \* requestOnce: buffer
  exFullText,     \* requestOnce: fullText
  exDoneSent,     \* requestOnce: doneSent
  exResult,       \* the text the call returned
  exError,        \* the error the call threw
  exSent,         \* history: the whole response body of the current attempt
  exLast,         \* history: how the current attempt ended, once it has
  exPrior,        \* history: how the attempt before the current one ended
  exSleeps,       \* history: the backoff delays slept so far
  exStalled,      \* whether the provider has stopped sending on the current connection
  fbPc,           \* fallback check: "input" before, "built" after the fallback is built
  fbDraft,        \* draftOutput
  fbRequest,      \* userRequest
  fbAgent,        \* targetAgent
  fbOutput,       \* normalize(buildFallbackCanonicalOutput(...))
  fbValidation,   \* validate(fbOutput)
  genPc,          \* the generate handler: "received", "initial" (awaiting the first
                  \* completion), "repair" (awaiting the repair completion), "direct"
                  \* (relaying the provider stream), "done"
  genRequest,     \* the inbound request
  genOutput,      \* generatePromptArtifact: output
  genValidation,  \* generatePromptArtifact: validation
  genRepaired,    \* generatePromptArtifact: repaired
  genOutcome,     \* "none", "returned" or "threw": how generatePromptArtifact ended
  genFirst,       \* history: the text the first completion call returned
  genSteps,       \* history: the steps generatePromptArtifact has taken, in order
  genDraft,       \* history: the draft handed to buildFallbackCanonicalOutput, if any
  genCancelled,   \* history: whether the caller has gone away
  resStatus,      \* res.statusCode (0 while unset)
  resJson,        \* whether a JSON body was sent with res.end
  resFrames,      \* the NDJSON frames written so far
  resEnded,       \* res.writableEnded
  prPc,           \* parser check: "input" before, "parsed" after the frame is handled
  prFrame,        \* the frame handed to parseOpenAICompatibleSseEvent
  prEvent,        \* what it returned, or that it threw
  prLoop,         \* what the event loop of requestOnce did with the frame
  stPc,           \* contract check: "off", or "on" while a text is normalized and validated
  stKnobs,        \* history: how the raw text was put together
  stAgent,        \* targetAgent
  stText,         \* the text: the raw output, then what normalize made of it
  stPrev,         \* history: the text before the last normalize call
  stPasses,       \* how many times normalize has been applied
  stValidated,    \* whether stValidation is the validation of stText
  stValidation,   \* validateGeneratedPromptOutput(stText, stAgent)
  rlPc,           \* rate limiter: "off", or "on" while requests arrive
  rlLimit,        \* the configured maximum of requests per window
  rlWindowMs,     \* the configured window length
  rlNow,          \* Date.now()
  rlStore,        \* rateLimitStore: the entry of each key
  rlLog,          \* history: per key, the results since its window was last reset
  rlInFlight,     \* history: per key, the admitted requests still being handled
  rlUnpruned,     \* history: the store as it would be were it never pruned
  gdPc,           \* request guards: "off", or "on" while the two requests are served
  gdEnv,          \* the environment: API_PROXY_AUTH_TOKEN, CORS_ALLOWED_ORIGINS, the body cap
  gdA,            \* a request and the response, store and body buffer of its handling
  gdB,            \* the same request sent with another Origin header, handled likewise
  spPc,           \* splitIntoStreamChunks: "off", "loop", "returned", then "sent"
  spOutput,       \* output
  spChunkSize,    \* chunkSize
  spIndex,        \* the loop variable index
  spChunks,       \* chunks
  spFrames,       \* the chunk frames handleGenerate wrote for the chunks
  tmPc,           \* message trimming: "off", "input", then "trimmed"
  tmFunction,     \* "trimMessagesForContext" or "capStoredMessages"
  tmMessages,     \* messages
  tmLimit,        \* limit
  tmResult,       \* what the function returned
  clPc,           \* streamAssistantResponse: "off", "fetching", "reading", "resolved" or "rejected"
  clResponse,     \* what fetch resolved with: "stream", "notOk" or "noBody"
  clLines,        \* the lines the server wrote on the response
  clStream,       \* the bytes of the response body
  clPos,          \* the bytes read so far
  clPending,      \* the bytes the TextDecoder holds back
  clBuffer,       \* buffer
  clDelivered,    \* the texts onChunk was called with
  clError,        \* the message of the Error the promise rejected with
  clCutChar,      \* a read ended inside a character
  clCutLine,      \* a read ended inside a line
  chMessages,     \* usePromptChat: the messages state
  chStatus,       \* the status state
  chRendered,     \* the status of the render whose sendMessage the caller holds
  chMessagesRef,  \* messagesRef.current
  chActiveRequest,    \* activeRequestRef.current: the call whose controller it is, 0 for null
  chActiveGeneration, \* activeGenerationRef.current
  chCalls         \* the calls of sendMessage made so far

sseVars == << ssePc, sseBuffer, sseEvents, sseRest >>
execVars == << exPc, exMaxRetries, exBaseDelay, exAttempt, exStream, exBuffer, exFullText,
               exDoneSent, exResult, exError, exSent, exLast, exPrior, exSleeps, exStalled >>
fbVars == << fbPc, fbDraft, fbRequest, fbAgent, fbOutput, fbValidation >>
genVars == << genPc, genRequest, genOutput, genValidation, genRepaired, genOutcome,
              genFirst, genSteps, genDraft, genCancelled >>
resVars == << resStatus, resJson, resFrames, resEnded >>
parseVars == << prPc, prFrame, prEvent, prLoop >>
stabVars == << stPc, stKnobs, stAgent, stText, stPrev, stPasses, stValidated, stValidation >>
rateVars == << rlPc, rlLimit, rlWindowMs, rlNow, rlStore, rlLog, rlInFlight, rlUnpruned >>
guardVars == << gdPc, gdEnv, gdA, gdB >>
splitVars == << spPc, spOutput, spChunkSize, spIndex, spChunks, spFrames >>
trimVars == << tmPc, tmFunction, tmMessages, tmLimit, tmResult >>
clientVars == << clPc, clResponse, clLines, clStream, clPos, clPending, clBuffer, clDelivered, clError, clCutChar, clCutLine >>
chatVars == << chMessages, chStatus, chRendered, chMessagesRef, chActiveRequest, chActiveGeneration, chCalls >>
vars == << sseVars, execVars, fbVars, genVars, resVars, parseVars, stabVars, rateVars, guardVars, splitVars, trimVars, clientVars, chatVars >>
notSseVars == << execVars, fbVars, genVars, resVars, parseVars, stabVars, rateVars, guardVars, splitVars, trimVars, clientVars, chatVars >>
notExecVars == << sseVars, fbVars, genVars, resVars, parseVars, stabVars, rateVars, guardVars, splitVars, trimVars, clientVars, chatVars >>
notFbVars == << sseVars, execVars, genVars, resVars, parseVars, stabVars, rateVars, guardVars, splitVars, trimVars, clientVars, chatVars >>
notHandlerVars == << sseVars, execVars, fbVars, parseVars, stabVars, rateVars, guardVars, splitVars, trimVars, clientVars, chatVars >>
notParseVars == << sseVars, execVars, fbVars, genVars, resVars, stabVars, rateVars, guardVars, splitVars, trimVars, clientVars, chatVars >>
notStabVars == << sseVars, execVars, fbVars, genVars, resVars, parseVars, rateVars, guardVars, splitVars, trimVars, clientVars, chatVars >>
notRateVars == << sseVars, execVars, fbVars, genVars, resVars, parseVars, stabVars, guardVars, splitVars, trimVars, clientVars, chatVars >>
notGuardVars == << sseVars, execVars, fbVars, genVars, resVars, parseVars, stabVars, rateVars, splitVars, trimVars, clientVars, chatVars >>
notSplitVars == << sseVars, execVars, fbVars, genVars, resVars, parseVars, stabVars, rateVars, guardVars, trimVars, clientVars, chatVars >>
notTrimVars == << sseVars, execVars, fbVars, genVars, resVars, parseVars, stabVars, rateVars, guardVars, splitVars, clientVars, chatVars >>
notClientVars == << sseVars, execVars, fbVars, genVars, resVars, parseVars, stabVars, rateVars, guardVars, splitVars, trimVars, chatVars >>
notChatVars == << sseVars, execVars, fbVars, genVars, resVars, parseVars, stabVars, rateVars, guardVars, splitVars, trimVars, clientVars >>

\* what the event loop of requestOnce did with one frame
NoLoop == [fullText |-> << >>, doneSent |-> FALSE, threw |-> FALSE, error |-> NoError]

NoValidation ==
  [isValid |-> FALSE, missingHeadings |-> << >>, missingContractItems |-> << >>,
   missingTextCodeBlock |-> FALSE]
NoRequest ==
  [handler |-> "artifact", method |-> "POST", authorized |-> TRUE, allowed |-> TRUE,
   body |-> "ok", skills |-> TRUE, targetAgent |-> "universal", lastUserMessage |-> << >>,
   autoRepair |-> TRUE]
\* no fallback was built
NoDraft == [used |-> FALSE, draftOutput |-> << >>]
HandlerIdle ==
  /\ genPc = "off" /\ genRequest = NoRequest /\ genOutput = << >>
  /\ genValidation = NoValidation /\ genRepaired = FALSE /\ genOutcome = "none"
  /\ genFirst = << >> /\ genSteps = << >> /\ genDraft = NoDraft /\ genCancelled = FALSE
  /\ resStatus = 0 /\ resJson = FALSE /\ resFrames = << >> /\ resEnded = FALSE

FallbackIdle ==
  /\ fbPc = "off" /\ fbDraft = << >> /\ fbRequest = << >> /\ fbAgent = "universal"
  /\ fbOutput = << >> /\ fbValidation = NoValidation

\* how a raw output is put together; the default is a complete artifact
DefaultKnobs ==
  [core |-> "canonical", fence |-> "text", labels |-> "all", extra |-> "none",
   tail |-> "none", adapter |-> "canonical", why |-> "canonical",
   checklist |-> "canonical", second |-> "none", spacing |-> "lf"]

StabilityIdle ==
  /\ stPc = "off" /\ stKnobs = DefaultKnobs /\ stAgent = "universal" /\ stText = << >>
  /\ stPrev = << >> /\ stPasses = 0 /\ stValidated = FALSE /\ stValidation = NoValidation
RateKeys == {"generate:a", "generate:b"}
\* a key without an entry in the store
NoEntry == [present |-> FALSE, count |-> 0, resetAt |-> 0]
RateIdle ==
  /\ rlPc = "off" /\ rlLimit = 1 /\ rlWindowMs = 1000 /\ rlNow = 0
  /\ rlStore = [k \in RateKeys |-> NoEntry]
  /\ rlLog = [k \in RateKeys |-> << >>]
  /\ rlInFlight = [k \in RateKeys |-> 0]
  /\ rlUnpruned = [k \in RateKeys |-> NoEntry]
\* the handling of one request by handler and handleGenerate
NoServed ==
  [pc |-> "off", req |-> << >>, status |-> 0, cors |-> "", error |-> "none",
   frames |-> << >>, ended |-> FALSE, store |-> [k \in RateKeys |-> NoEntry],
   rateChecked |-> FALSE, readStarted |-> FALSE, chunks |-> << >>, received |-> 0,
   data |-> << >>, rest |-> << >>, bodyReturned |-> FALSE, calls |-> 0]
GuardIdle ==
  /\ gdPc = "off" /\ gdEnv = << >> /\ gdA = NoServed /\ gdB = NoServed
SplitIdle ==
  /\ spPc = "off" /\ spOutput = << >> /\ spChunkSize = 1 /\ spIndex = 0
  /\ spChunks = << >> /\ spFrames = << >>
TrimIdle ==
  /\ tmPc = "off" /\ tmFunction = "trimMessagesForContext" /\ tmMessages = << >>
  /\ tmLimit = 0 /\ tmResult = << >>
ClientIdle ==
  /\ clPc = "off" /\ clResponse = "stream" /\ clLines = << >> /\ clStream = << >>
  /\ clPos = 0 /\ clPending = << >> /\ clBuffer = << >> /\ clDelivered = << >>
  /\ clError = << >> /\ clCutChar = FALSE /\ clCutLine = FALSE
ChatIdle ==
  /\ chMessages = << >> /\ chStatus = "IDLE" /\ chRendered = "IDLE"
  /\ chMessagesRef = << >> /\ chActiveRequest = 0
  /\ chActiveGeneration = [userId |-> 0, assistantId |-> 0, userContent |-> << >>]
  /\ chCalls = << >>
ParseIdle == prPc = "off" /\ prFrame = << >> /\ prEvent = NoEvent /\ prLoop = NoLoop

\* how an attempt ended, for the history: the cause, the error thrown and the
\* text accumulated when it ended
Ended(cause, error, text) == [cause |-> cause, error |-> error, text |-> text]
NotEnded == Ended("none", NoError, << >>)

ExecIdle ==
  /\ exPc = "off" /\ exMaxRetries = 0 /\ exBaseDelay = 0 /\ exAttempt = 0
  /\ exStream = << >> /\ exBuffer = << >> /\ exFullText = << >> /\ exDoneSent = FALSE
  /\ exResult = << >> /\ exError = NoError /\ exSent = << >>
  /\ exLast = NotEnded /\ exPrior = NotEnded /\ exSleeps = << >> /\ exStalled = FALSE

(***************************************************************************)
(* SpecSse: consumeSseEvents applied to every bounded buffer               *)
(***************************************************************************)
MaxBufferLen == 5
SseInputAtoms == {NL, SP, WORD}

SeqsUpTo(S, n) == UNION {[1..k -> S] : k \in 0..n}

\* the buffer of the repository's decoder test
ExampleBuffer ==
  << "data:", SP, "one", NL, NL, "data:", SP, "two", NL, NL, "partial" >>

SseIdle == ssePc = "off" /\ sseBuffer = << >> /\ sseEvents = << >> /\ sseRest = << >>

InitSse ==
  /\ ssePc = "input"
  /\ sseBuffer \in SeqsUpTo(SseInputAtoms, MaxBufferLen) \cup {ExampleBuffer}
  /\ sseEvents = << >>
  /\ sseRest = << >>
  /\ ExecIdle
  /\ FallbackIdle
  /\ HandlerIdle
  /\ ParseIdle
  /\ StabilityIdle
  /\ RateIdle
  /\ GuardIdle
  /\ SplitIdle
  /\ TrimIdle
  /\ ClientIdle
  /\ ChatIdle

Consume ==
  /\ ssePc = "input"
  /\ LET consumed == consumeSseEvents(sseBuffer)
     IN /\ sseEvents' = consumed.events
        /\ sseRest' = consumed.rest
  /\ ssePc' = "consumed"
  /\ UNCHANGED << sseBuffer, notSseVars >>

NextSse == Consume
SpecSse == InitSse /\ [][NextSse]_vars

(***************************************************************************)
(* Properties of the decoder                                               *)
(***************************************************************************)
HasDelimiter(s) == \E i \in 1..(Len(s) - 1) : s[i] = NL /\ s[i + 1] = NL
NonWs(s) == SelectSeq(s, LAMBDA a : a \notin WsAtoms)

\* The segments between delimiters, found by a single left-to-right scan that
\* closes the current segment at each blank line; the last entry is the text
\* after the last delimiter.
RECURSIVE ScanSegments(_, _, _, _)
ScanSegments(s, i, cur, segs) ==
  IF i > Len(s) THEN Append(segs, cur)
  ELSE IF i < Len(s) /\ s[i] = NL /\ s[i + 1] = NL
       THEN ScanSegments(s, i + 2, << >>, Append(segs, cur))
       ELSE ScanSegments(s, i + 1, Append(cur, s[i]), segs)

Segments(s) == ScanSegments(s, 1, << >>, << >>)
Delimited(s) == SubSeq(Segments(s), 1, Len(Segments(s)) - 1)
AfterLastDelimiter(s) == Segments(s)[Len(Segments(s))]
TrimmedNonEmpty(segs) ==
  LET t == [k \in 1..Len(segs) |-> Trim(segs[k])]
  IN SelectSeq(t, LAMBDA e : e # << >>)

\* C9 as stated: the emitted frames followed by the remainder are the input.
C9_FramesPlusRestIsInput ==
  ssePc = "consumed" => Flatten(sseEvents) \o sseRest = sseBuffer

\* C9 amended: the frames followed by the remainder are the input without its
\* delimiters and without the white space around each frame; no other content is
\* dropped, duplicated or reordered.
C9_FramesPlusRestKeepContent ==
  ssePc = "consumed" =>
    /\ Flatten(sseEvents) \o sseRest
         = Flatten(TrimmedNonEmpty(Delimited(sseBuffer))) \o AfterLastDelimiter(sseBuffer)
    /\ NonWs(Flatten(sseEvents) \o sseRest) = NonWs(sseBuffer)

C9_Witness ==
  /\ ssePc = "consumed"
  /\ Len(sseEvents) = 2
  /\ sseRest # << >>
  /\ Flatten(sseEvents) \o sseRest # sseBuffer

\* C10 as stated: the events are the (non-empty) blank-line-delimited segments
\* themselves and rest is the text after the last delimiter.
C10_EventsAreSegments ==
  ssePc = "consumed" =>
    /\ sseEvents = SelectSeq(Delimited(sseBuffer), LAMBDA e : e # << >>)
    /\ sseRest = AfterLastDelimiter(sseBuffer)

\* C10 amended: the events are the blank-line-delimited segments in order, each
\* trimmed and the empty ones left out; rest is exactly the text after the last
\* delimiter and holds no delimiter; without a delimiter there are no events and
\* rest is the buffer; the test's buffer gives the test's events and rest.
C10_EventsAreTrimmedSegments ==
  ssePc = "consumed" =>
    /\ sseEvents = TrimmedNonEmpty(Delimited(sseBuffer))
    /\ sseRest = AfterLastDelimiter(sseBuffer)
    /\ ~HasDelimiter(sseRest)
    /\ (~HasDelimiter(sseBuffer) => sseEvents = << >> /\ sseRest = sseBuffer)
    /\ (sseBuffer = ExampleBuffer =>
          /\ sseEvents = << << "data:", SP, "one" >>, << "data:", SP, "two" >> >>
          /\ sseRest = << "partial" >>)

C10_Witness ==
  /\ ssePc = "consumed"
  /\ sseBuffer = ExampleBuffer
  /\ Len(sseEvents) = 2
  /\ sseRest = << "partial" >>

(***************************************************************************)
(* SpecParse: parseOpenAICompatibleSseEvent, and the event loop of         *)
(* requestOnce around it, applied to every bounded frame                   *)
(***************************************************************************)
MaxFrameLines == 2

\* the lines a frame is made of: data lines carrying each JSON text, the
\* sentinel, the fragments of a split JSON text, an empty payload, a line
\* that is not a data line and an indented data line
FrameLineForms ==
  { << DATA, SP, j >> : j \in JsonAtoms }
  \cup { << DATA, DONE_SENTINEL >>, << DATA, SP, DONE_SENTINEL, SP >>, << DATA, JHEAD >>,
         << DATA, JTAIL >>, << DATA >>, << WORD >>, << SP, DATA, SP, "chunkA" >> }

\* the frames consumeSseEvents hands over are trimmed and not empty
ParseFrames ==
  { frame \in { Join(lines, << NL >>) : lines \in SeqsUpTo(FrameLineForms, MaxFrameLines) } :
      frame # << >> /\ Trim(frame) = frame }

InitParse ==
  /\ SseIdle
  /\ ExecIdle
  /\ FallbackIdle
  /\ HandlerIdle
  /\ StabilityIdle
  /\ RateIdle
  /\ GuardIdle
  /\ SplitIdle
  /\ TrimIdle
  /\ ClientIdle
  /\ ChatIdle
  /\ prPc = "input"
  /\ prFrame \in ParseFrames
  /\ prEvent = NoEvent
  /\ prLoop = NoLoop

\* one pass of the for loop of requestOnce over a read that completed the frame
ParseFrame ==
  /\ prPc = "input"
  /\ prEvent' = parseOpenAICompatibleSseEvent(prFrame)
  /\ prLoop' = processEvents(<< prFrame >>, 1, << >>, FALSE)
  /\ prPc' = "parsed"
  /\ UNCHANGED << prFrame, notParseVars >>

NextParse == ParseFrame
SpecParse == InitParse /\ [][NextParse]_vars

\* the reading of a decoded payload that the priority rule is stated in: the
\* error description, the choices when they are a list, their texts in order
\* and their finish markers
errorDescriptionOf(value) == parseErrorMessage(Get(value, "error"))
choiceListOf(value) ==
  IF Get(value, "choices").j = "array" THEN Get(value, "choices").v ELSE << >>
textOfChoices(value) ==
  Flatten([k \in 1..Len(choiceListOf(value)) |-> choiceText(choiceListOf(value)[k])])
anyChoiceFinished(value) ==
  \E k \in 1..Len(choiceListOf(value)) : choiceFinished(choiceListOf(value)[k])
classOfPayload(value) ==
  IF errorDescriptionOf(value) # << >> THEN ErrorEvent(errorDescriptionOf(value))
  ELSE IF textOfChoices(value) # << >> THEN ChunkEvent(textOfChoices(value))
  ELSE IF anyChoiceFinished(value) THEN DoneEvent
  ELSE NoEvent
classOfFrame(frame) ==
  IF dataLinesOf(frame) = << >> THEN NoEvent
  ELSE IF Join(dataLinesOf(frame), << NL >>) = << DONE_SENTINEL >> THEN DoneEvent
  ELSE IF ~JsonParse(Join(dataLinesOf(frame), << NL >>)).ok THEN NoEvent
  ELSE classOfPayload(JsonParse(Join(dataLinesOf(frame), << NL >>)).value)

\* C11: the parser classifies every frame by the priority no data line ->
\* nothing, sentinel -> Done, undecodable -> nothing, error description -> Error,
\* any text in the choices -> Chunk of the texts in choice order, any finish
\* marker -> Done, otherwise nothing.
C11_ClassifiedByPriority == prPc = "parsed" => prEvent = classOfFrame(prFrame)

\* the same priority on the frames for which the parser returns
C11_ClassifiedByPriorityWhenReturning ==
  (prPc = "parsed" /\ prEvent.type # "threw") => prEvent = classOfFrame(prFrame)

\* C12: for every frame the parser returns Chunk, Done, Error or nothing and
\* never throws, and only an Error event makes the event loop fail the attempt.
C12_ParseOrIgnore ==
  prPc = "parsed" =>
    /\ prEvent.type \in {"chunk", "done", "error", "none"}
    /\ prLoop.threw => prEvent.type = "error"

(***************************************************************************)
(* SpecExec: requestOpenAICompatibleCompletion against a provider that may *)
(* refuse the connection, answer with any status, send no body, send any   *)
(* bounded event stream cut into reads at any place, or drop the           *)
(* connection while the body is read                                       *)
(***************************************************************************)
MaxRetriesBound == 2
MaxFrames == 2
RetryBaseDelays == {350, 1500}
StatusCodes == {200, 400, 408, 425, 429, 503}

\* response.ok
isOk(status) == status >= 200 /\ status <= 299

MsgUpstreamTimedOut == << "Upstream", "request", "timed out", "after", "ms" >>
MsgNoStream == << "No", "response", "stream", "returned", "by", "provider" >>
MsgRequestFailed == << "Request", "failed", "with", "status" >>
\* messages of the errors fetch rejects with
ConnectMessages == { << "fetch failed" >>, << "getaddrinfo", "ENOTFOUND" >> }
\* messages of the errors reader.read rejects with
ReadMessages == { << "terminated" >>, << "socket hang up" >> }
\* what readErrorResponse returns: a message of the body, or the default
ErrorBodyMessages == { MsgTimeout, MsgBadRequest, MsgRequestFailed }

StreamFrames ==
  { << DATA, SP, "chunkA" >>, << DATA, "chunkB" >>, << DATA, "chunkSp" >>,
    << DATA, SP, DONE_SENTINEL >>, << DATA, "errTimeout" >>, << DATA, "errBad" >> }

\* a body: frames each followed by a blank line, the last one possibly not
BodyOf(frames, closed) ==
  Flatten([k \in 1..Len(frames) |->
             IF k < Len(frames) \/ closed THEN frames[k] \o << NL, NL >> ELSE frames[k]])
Bodies ==
  { BodyOf(frames, closed) : frames \in SeqsUpTo(StreamFrames, MaxFrames), closed \in BOOLEAN }

InitExec ==
  /\ SseIdle
  /\ FallbackIdle
  /\ HandlerIdle
  /\ ParseIdle
  /\ StabilityIdle
  /\ RateIdle
  /\ GuardIdle
  /\ SplitIdle
  /\ TrimIdle
  /\ ClientIdle
  /\ ChatIdle
  /\ exPc = "connecting"
  /\ exMaxRetries \in 0..MaxRetriesBound
  /\ exBaseDelay \in RetryBaseDelays
  /\ exAttempt = 1
  /\ exStream = << >> /\ exBuffer = << >> /\ exFullText = << >> /\ exDoneSent = FALSE
  /\ exResult = << >> /\ exError = NoError /\ exSent = << >>
  /\ exLast = NotEnded /\ exPrior = NotEnded /\ exSleeps = << >> /\ exStalled = FALSE

\* requestOnce threw: its response is dropped, and the catch block of the retry
\* loop runs
Fail(cause, error, text) ==
  /\ exLast' = Ended(cause, error, text)
  /\ exStream' = << >>
  /\ exSent' = << >>
  /\ IF shouldRethrow(exAttempt, maxAttemptsOf(exMaxRetries), error)
     THEN /\ exPc' = "thrown"
          /\ exError' = error
          /\ UNCHANGED exSleeps
     ELSE /\ exPc' = "sleeping"
          /\ exSleeps' = Append(exSleeps, backoffMs(exBaseDelay, exAttempt))
          /\ UNCHANGED exError
  /\ UNCHANGED << exMaxRetries, exBaseDelay, exAttempt, exResult, exPrior, exStalled, notExecVars >>

\* fetch rejects: the timer, armed until fetch settles, aborted it, or the
\* connection failed
FetchRejects ==
  /\ exPc = "connecting"
  /\ \/ Fail("timeout", toProviderError(MsgUpstreamTimedOut, 0, TRUE), << >>)
     \/ /\ ~exStalled
        /\ \E message \in ConnectMessages :
             Fail("connect", toProviderError(message, 0, TRUE), << >>)
  /\ UNCHANGED << exBuffer, exFullText, exDoneSent >>

\* fetch resolves with a response that is not ok
ErrorResponse ==
  /\ exPc = "connecting"
  /\ ~exStalled
  /\ \E status \in StatusCodes, message \in ErrorBodyMessages :
       /\ ~isOk(status)
       /\ Fail("status", toProviderError(message, status, isTransientStatusCode(status)),
               << >>)
  /\ UNCHANGED << exBuffer, exFullText, exDoneSent >>

\* fetch resolves with an ok response without a body
NoBody ==
  /\ exPc = "connecting"
  /\ ~exStalled
  /\ Fail("nobody", toProviderError(MsgNoStream, 0, FALSE), << >>)
  /\ UNCHANGED << exBuffer, exFullText, exDoneSent >>

\* fetch resolves with an ok response and a body: the read loop begins
OpenStream ==
  /\ exPc = "connecting"
  /\ ~exStalled
  /\ \E body \in Bodies : exStream' = body /\ exSent' = body
  /\ exBuffer' = << >>
  /\ exDoneSent' = FALSE
  /\ exFullText' = initialFullText(exFullText)
  /\ exPc' = "reading"
  /\ UNCHANGED << exMaxRetries, exBaseDelay, exAttempt, exResult, exError, exLast, exPrior,
                  exSleeps, exStalled, notExecVars >>

\* reader.read resolves with the next bytes: one pass of the loop body
ReadValue ==
  /\ exPc = "reading"
  /\ ~exStalled
  /\ \E k \in 1..Len(exStream) :
       LET value == SubSeq(exStream, 1, k)
           consumed == consumeSseEvents(replaceCrLf(exBuffer \o value))
           after == processEvents(consumed.events, 1, exFullText, exDoneSent)
       IN /\ exBuffer' = consumed.rest
          /\ exFullText' = after.fullText
          /\ exDoneSent' = after.doneSent
          /\ IF after.threw THEN Fail("event", after.error, after.fullText)
             ELSE /\ exStream' = SubSeq(exStream, k + 1, Len(exStream))
                  /\ UNCHANGED << exPc, exMaxRetries, exBaseDelay, exAttempt, exResult,
                                  exError, exSent, exLast, exPrior, exSleeps, exStalled, notExecVars >>

\* reader.read resolves with done: the code after the loop
ReadDone ==
  /\ exPc = "reading"
  /\ ~exStalled
  /\ exStream = << >>
  /\ LET finished == finishAttempt(exBuffer, exFullText, exDoneSent)
     IN IF finished.threw THEN Fail("event", finished.error, exFullText)
        ELSE /\ exPc' = "returned"
             /\ exResult' = finished.text
             /\ exLast' = Ended("ok", NoError, finished.text)
             /\ UNCHANGED << exMaxRetries, exBaseDelay, exAttempt, exError, exPrior, exSleeps,
                             exStream, exSent, exStalled, notExecVars >>
  /\ UNCHANGED << exBuffer, exFullText, exDoneSent >>

\* reader.read rejects: the connection broke while the body was read
ReadRejects ==
  /\ exPc = "reading"
  /\ ~exStalled
  /\ \E message \in ReadMessages : Fail("read", RawError(message), exFullText)
  /\ UNCHANGED << exBuffer, exFullText, exDoneSent >>

\* the backoff sleep ends: the next pass of the retry loop calls requestOnce
WakeUp ==
  /\ exPc = "sleeping"
  /\ exAttempt' = exAttempt + 1
  /\ exPc' = "connecting"
  /\ exPrior' = exLast
  /\ exLast' = NotEnded
  /\ exStalled' = FALSE
  /\ UNCHANGED << exMaxRetries, exBaseDelay, exStream, exBuffer, exFullText, exDoneSent,
                  exResult, exError, exSent, exSleeps, notExecVars >>

NextExec ==
  \/ FetchRejects
  \/ ErrorResponse
  \/ NoBody
  \/ OpenStream
  \/ ReadValue
  \/ ReadDone
  \/ ReadRejects
  \/ WakeUp
SpecExec == InitExec /\ [][NextExec]_vars

(***************************************************************************)
(* SpecExecLive: the same call against a provider that may also stop       *)
(* sending, before it answers or while the body is read.  A provider that  *)
(* has not stopped goes on, and timers fire.                               *)
(***************************************************************************)
MaxLiveRetries == 1

InitExecLive ==
  /\ InitExec
  /\ exMaxRetries <= MaxLiveRetries

\* the provider sends nothing more on the current connection
ProviderStalls ==
  /\ exPc \in {"connecting", "reading"}
  /\ ~exStalled
  /\ exStalled' = TRUE
  /\ UNCHANGED << exPc, exMaxRetries, exBaseDelay, exAttempt, exStream, exBuffer, exFullText,
                  exDoneSent, exResult, exError, exSent, exLast, exPrior, exSleeps,
                  notExecVars >>

NextExecLive ==
  \/ NextExec
  \/ ProviderStalls
\* a read of a provider that has not stopped settles
ProviderGoesOn ==
  \/ ReadRejects
  \/ ReadDone
  \/ ReadValue
\* fairness: while fetch is awaited its timer is armed and fires unless fetch
\* settles first; a read of a provider that has not stopped settles; the
\* backoff sleep ends
SpecExecLive ==
  /\ InitExecLive
  /\ [][NextExecLive]_vars
  /\ WF_vars(FetchRejects)
  /\ WF_vars(ProviderGoesOn)
  /\ WF_vars(WakeUp)

\* C25: an attempt during which the provider stops sending, before it answers
\* or while the body is read, is ended by the timeout of that attempt, and
\* every call of requestOpenAICompatibleCompletion eventually returns a text
\* or throws.
C25_StalledAttemptTimesOut ==
  /\ exStalled ~> (exLast.cause = "timeout")
  /\ <>(exPc \in {"returned", "thrown"})

\* C25, before the response headers only: a provider that stops sending while
\* fetch is awaited is timed out, and the failure is transient.
C25_StalledConnectTimesOut ==
  [][(exStalled /\ exPc = "connecting" /\ exPc' # "connecting") =>
       /\ exLast'.cause = "timeout"
       /\ exLast'.error.transient]_vars

(***************************************************************************)
(* Properties of the executor                                              *)
(***************************************************************************)
Failed(end) == end.cause \notin {"none", "ok"}

\* a transient failure of the error taxonomy: a timeout or refused connection,
\* a status of 408, 425, 429 or 5xx, or a message with a network keyword
FailedTransiently(end) ==
  /\ Failed(end)
  /\ \/ end.cause \in {"timeout", "connect"}
     \/ end.error.statusCode \in {408, 425, 429}
     \/ end.error.statusCode >= 500
     \/ \E i \in 1..Len(end.error.message) : end.error.message[i] \in TransientKeywords

\* C4: at most maxRetries + 1 attempts are made; an attempt after the first is
\* made only after a transient failure of the one before (hence of all before
\* it), and such a failure is retried while attempts remain; a success ends the
\* call at once; the error thrown is the error of the last attempt made; with
\* maxRetries = 1 a first attempt answered 503 is always followed by a second.
C4_BoundedRetryAfterTransientFailures ==
  /\ exAttempt <= exMaxRetries + 1
  /\ exAttempt > 1 => FailedTransiently(exPrior)
  /\ exPc = "sleeping" => FailedTransiently(exLast) /\ exAttempt < exMaxRetries + 1
  /\ exPc = "returned" => exLast.cause = "ok"
  /\ exPc = "thrown" =>
       /\ Failed(exLast) /\ exError = exLast.error
       /\ exAttempt = exMaxRetries + 1 \/ ~FailedTransiently(exLast)
  /\ (exMaxRetries = 1 /\ exPc \in {"returned", "thrown"} /\ exAttempt = 1)
       => exLast.error.statusCode # 503
  /\ Len(exSleeps) = exAttempt - (IF exPc = "sleeping" THEN 0 ELSE 1)

C4_Witness ==
  /\ exMaxRetries = 1 /\ exPc = "returned" /\ exAttempt = 2
  /\ exPrior.cause = "status" /\ exPrior.error.statusCode = 503
  /\ exResult = << "A" >>

C4_WitnessExhausted ==
  /\ exMaxRetries = 2 /\ exPc = "thrown" /\ exAttempt = 3
  /\ exLast.cause = "status" /\ exLast.error.statusCode = 429

\* a failure the claim calls fatal: a status below 500 other than 408, 425 and
\* 429, or a response without a stream
FatalByStatus(end) ==
  \/ /\ end.cause = "status"
     /\ end.error.statusCode \notin {408, 425, 429}
     /\ end.error.statusCode < 500
  \/ end.cause = "nobody"

\* C5: an attempt that ends in a fatal failure is the last one: the error is
\* thrown at once, without a backoff sleep and without another attempt,
\* whatever the error message says.
C5_FatalNeverRetried ==
  /\ FatalByStatus(exLast) => exPc = "thrown"
  /\ ~FatalByStatus(exPrior)

\* C6: a connection or timeout error thrown during an attempt, while the
\* connection is opened or while the body is read, is retried while attempts
\* remain: it is surfaced only by the last attempt.
C6_ConnectionErrorsRetried ==
  (exPc = "thrown" /\ exLast.cause \in {"timeout", "connect", "read"})
    => exAttempt = exMaxRetries + 1

\* the events of a response body in arrival order: its frames between blank
\* lines and the text after the last blank line, parsed
EventsOfBody(body) ==
  LET segs == Segments(replaceCrLf(body))
      parsedSegs == [k \in 1..Len(segs) |->
                       IF Trim(segs[k]) = << >> THEN NoEvent
                       ELSE parseOpenAICompatibleSseEvent(Trim(segs[k]))]
  IN SelectSeq(parsedSegs, LAMBDA e : e.type # "none")
ChunkTexts(events) ==
  LET chunks == SelectSeq(events, LAMBDA e : e.type = "chunk")
  IN [k \in 1..Len(chunks) |-> chunks[k].text]
BeforeFirstDone(events) ==
  LET dones == {k \in 1..Len(events) : events[k].type = "done"}
  IN IF dones = {} THEN events ELSE SubSeq(events, 1, Min(dones) - 1)

\* C7: the read loop of every attempt starts with an empty accumulator, an
\* empty carry buffer and a body of its own that has not been read; the text
\* returned is made of chunks of the body of the attempt that returned it,
\* in order from the first one, and of nothing received by an earlier attempt.
C7_FailedAttemptTextDiscarded ==
  /\ (exPc = "reading" /\ exStream = exSent) =>
       exFullText = << >> /\ exBuffer = << >> /\ ~exDoneSent
  /\ exPc = "returned" =>
       LET texts == ChunkTexts(EventsOfBody(exSent))
       IN \E n \in 0..Len(texts) : exResult = Trim(Flatten(SubSeq(texts, 1, n)))

C7_Witness ==
  /\ exPc = "returned" /\ exAttempt = 2
  /\ exPrior.cause = "read" /\ exPrior.text = << "A" >>
  /\ exSent = << DATA, "chunkB", NL, NL >>
  /\ exResult = << "B" >>

\* C8: a successful attempt returns the text of the chunk events received
\* before the first done event or the end of the stream, concatenated in
\* arrival order and trimmed as a whole.
C8_ReturnsChunksBeforeDone ==
  exPc = "returned" =>
    exResult = Trim(Flatten(ChunkTexts(BeforeFirstDone(EventsOfBody(exSent)))))

\* C31: once a done event has been parsed in an attempt, that attempt adds no
\* text of a later frame to its text, returns the text it had, and is not
\* failed by a later error frame.
C31_NothingConsumedAfterDone ==
  [][(exPc = "reading" /\ exDoneSent) =>
       /\ exPc' = "reading" => exFullText' = exFullText
       /\ exPc' = "returned" => exResult' = Trim(exFullText)
       /\ exLast'.cause # "event"]_vars

\* C31 for the text after the last blank line only: once a done event has
\* been parsed, a last frame that no blank line follows is not parsed.
C31_UnterminatedFrameAfterDoneSkipped ==
  [][(exPc = "reading" /\ exDoneSent /\ exStream = << >> /\ exPc' # "reading") =>
       \/ exPc' = "returned" /\ exResult' = Trim(exFullText)
       \/ exLast'.cause = "read"]_vars

\* the delays of the backoff sleeps so far follow the schedule, and there is
\* one sleep between two attempts and no other
backoffSchedule ==
  /\ exPc # "off" =>
       Len(exSleeps) = IF exPc = "sleeping" THEN exAttempt ELSE exAttempt - 1
  /\ \A k \in 1..Len(exSleeps) : exSleeps[k] = Min({exBaseDelay * k, 2000})
  /\ exPc = "sleeping" => (Failed(exLast) /\ exAttempt < exMaxRetries + 1)
  /\ exPc \in {"returned", "thrown"} => Len(exSleeps) = exAttempt - 1

\* C32: after the k-th attempt failed transiently and was not the last, the
\* executor sleeps min(retryBaseDelayMs * k, 2000) ms and starts attempt k+1;
\* it sleeps at no other time: not before the first attempt, not after the
\* last, not after a fatal failure; n attempts make n-1 sleeps.
C32_BackoffBetweenAttemptsOnly ==
  /\ backoffSchedule
  /\ exPc = "sleeping" => (FailedTransiently(exLast) /\ ~FatalByStatus(exLast))

\* C32 without the case of a fatal status whose message holds a transient
\* keyword
C32_BackoffSchedule ==
  /\ backoffSchedule
  /\ exPc = "sleeping" => FailedTransiently(exLast)

(***************************************************************************)
(* SpecReads: the read loop of requestOnce on every bounded response text  *)
(* with LF and CR LF line endings, cut into reads at every place           *)
(***************************************************************************)
MaxReadPieces == 6
\* what response texts are made of: data lines, line feeds, carriage returns
ReadPieces ==
  { << DATA, "chunkA" >>, << DATA, "chunkB" >>, << NL >>, << CR >> }
ReadBodies == { Flatten(pieces) : pieces \in SeqsUpTo(ReadPieces, MaxReadPieces) }

\* fetch has resolved with an ok response and a body; no retry is configured
InitReads ==
  /\ SseIdle
  /\ FallbackIdle
  /\ HandlerIdle
  /\ ParseIdle
  /\ StabilityIdle
  /\ RateIdle
  /\ GuardIdle
  /\ SplitIdle
  /\ TrimIdle
  /\ ClientIdle
  /\ ChatIdle
  /\ exPc = "reading"
  /\ exMaxRetries = 0
  /\ exBaseDelay = 350
  /\ exAttempt = 1
  /\ exStream \in ReadBodies /\ exSent = exStream
  /\ exBuffer = << >> /\ exFullText = << >> /\ exDoneSent = FALSE
  /\ exResult = << >> /\ exError = NoError
  /\ exLast = NotEnded /\ exPrior = NotEnded /\ exSleeps = << >> /\ exStalled = FALSE

NextReads ==
  \/ ReadValue
  \/ ReadDone
SpecReads == InitReads /\ [][NextReads]_vars

\* the loop of requestOnce given the whole response text in one read
atOnce(body) ==
  LET ended(after, rest) ==
        LET finished(last) ==
              IF after.threw THEN [threw |-> TRUE, text |-> << >>]
              ELSE [threw |-> last.threw, text |-> last.text]
        IN finished(finishAttempt(rest, after.fullText, after.doneSent))
      looped(consumed) ==
        ended(processEvents(consumed.events, 1, << >>, FALSE), consumed.rest)
  IN looped(consumeSseEvents(replaceCrLf(body)))

\* C36: however the response text is cut into reads, the attempt ends as it
\* does when the whole text arrives in one read: with the same returned text.
C36_ReadsDoNotMatter ==
  exPc = "returned" => (~atOnce(exSent).threw /\ exResult = atOnce(exSent).text)

\* a carriage return followed by a CR LF line ending
hasCrCrLf(body) ==
  \E i \in 1..(Len(body) - 2) : body[i] = CR /\ body[i + 1] = CR /\ body[i + 2] = NL

\* C36 for the response texts in which no carriage return comes before a
\* CR LF line ending
C36_ReadsDoNotMatterWithoutCrCrLf ==
  (exPc = "returned" /\ ~hasCrCrLf(exSent)) =>
    (~atOnce(exSent).threw /\ exResult = atOnce(exSent).text)

(***************************************************************************)
(* SpecFallback: the fallback artifact built from every bounded draft and  *)
(* user request, normalized and validated as generatePromptArtifact does   *)
(***************************************************************************)
MaxDraftLines == 2

\* the lines drafts are made of: prose, an empty line, a bare heading marker,
\* another heading, the core heading, fences, a contract label
DraftLineForms ==
  { << WORD >>, << >>, << HASH, HASH >>, << HASH, HASH, SP, WORD >>, FINAL_PROMPT_HEADING,
    << FENCE, "text" >>, << FENCE >>, << "Context", COLON, SP, WORD >> }
Drafts == { Join(lines, << NL >>) : lines \in SeqsUpTo(DraftLineForms, MaxDraftLines) }
UserRequests ==
  { << >>, << WORD >>, << WORD, SP, FENCE, SP, WORD >>, << WORD, NL, HASH, HASH, SP, WORD >> }

InitFallback ==
  /\ SseIdle
  /\ ExecIdle
  /\ HandlerIdle
  /\ ParseIdle
  /\ StabilityIdle
  /\ RateIdle
  /\ GuardIdle
  /\ SplitIdle
  /\ TrimIdle
  /\ ClientIdle
  /\ ChatIdle
  /\ fbPc = "input"
  /\ fbDraft \in Drafts
  /\ fbRequest \in UserRequests
  /\ fbAgent \in TargetAgents
  /\ fbOutput = << >>
  /\ fbValidation = NoValidation

\* the fallback step of generatePromptArtifact
BuildFallback ==
  /\ fbPc = "input"
  /\ LET built(output) ==
           /\ fbOutput' = output
           /\ fbValidation' = validateGeneratedPromptOutput(output, fbAgent)
     IN built(normalizeGeneratedPromptOutput(
                buildFallbackCanonicalOutput(fbDraft, fbRequest, fbAgent), fbAgent))
  /\ fbPc' = "built"
  /\ UNCHANGED << fbDraft, fbRequest, fbAgent, notFbVars >>

NextFallback == BuildFallback
SpecFallback == InitFallback /\ [][NextFallback]_vars

\* C2: for every draft, user request and target agent the normalized fallback
\* passes validation: no heading missing, no contract label missing, a fenced
\* block found in the core section.
C2_FallbackAlwaysValid ==
  fbPc = "built" =>
    /\ fbValidation.isValid
    /\ fbValidation.missingHeadings = << >>
    /\ fbValidation.missingContractItems = << >>
    /\ ~fbValidation.missingTextCodeBlock

(***************************************************************************)
(* SpecStability: normalizeGeneratedPromptOutput and                       *)
(* validateGeneratedPromptOutput applied, in any order, to raw outputs     *)
(* that differ from a complete artifact in a bounded number of ways        *)
(***************************************************************************)
MaxVariations == 2
MaxPasses == 2
StabilityAgents == {"universal", "kiro"}

KnobValues ==
  [core : {"canonical", "variant", "deep", "none"},
   fence : {"text", "untagged", "py", "absent"},
   labels : {"all", "noFailureHandling", "none"},
   extra : {"none", "word", "heading"},
   tail : {"none", "labels"},
   adapter : {"canonical", "other", "variant", "none"},
   why : {"canonical", "variant", "none"},
   checklist : {"canonical", "variant", "none"},
   second : {"none", "core"},
   spacing : {"lf", "crlf", "blank", "nbsp"}]
Knobs ==
  { k \in KnobValues :
      Cardinality({f \in DOMAIN k : k[f] # DefaultKnobs[f]}) <= MaxVariations }

\* a line carrying the k-th field label: plain, bulleted or numbered
LabelLine(k) ==
  CASE k = 1 -> << REQUIRED_PROMPT_CONTRACT_ITEMS[1], COLON, SP, WORD >>
    [] k = 2 -> << "-", SP, REQUIRED_PROMPT_CONTRACT_ITEMS[2], COLON >>
    [] k = 3 -> << "1.", SP, REQUIRED_PROMPT_CONTRACT_ITEMS[3], SP, COLON >>
    [] OTHER -> << REQUIRED_PROMPT_CONTRACT_ITEMS[k], COLON >>
LabelLines == [k \in 1..7 |-> LabelLine(k)]
HeadingLine == << HASH, HASH, SP, WORD >>

\* which field labels the fenced block carries
labelsKept(knobs) ==
  CASE knobs.labels = "all" -> 1..7
    [] knobs.labels = "noFailureHandling" -> 1..6
    [] knobs.labels = "none" -> {}

\* the lines between the fences: the label lines, the extra line after the third
blockLines(knobs) ==
  Pick(SubSeq(LabelLines, 1, 3), labelsKept(knobs))
  \o (CASE knobs.extra = "none" -> << >>
        [] knobs.extra = "word" -> << << WORD >> >>
        [] knobs.extra = "heading" -> << HeadingLine >>)
  \o Pick(SubSeq(LabelLines, 4, 7), {k - 3 : k \in labelsKept(knobs) \ (1..3)})

coreLines(knobs, targetAgent) ==
  (CASE knobs.core = "canonical" -> << FINAL_PROMPT_HEADING >>
     [] knobs.core = "variant" -> << << HASH, SP, "final prompt" >> >>
     [] knobs.core = "deep" -> << << HASH, HASH, HASH, "Final Prompt", SP, WORD >> >>
     [] knobs.core = "none" -> << >>)
  \o (CASE knobs.fence = "text" -> << << FENCE, "text" >> >>
        [] knobs.fence = "untagged" -> << << FENCE >> >>
        [] knobs.fence = "py" -> << << FENCE, "py" >> >>
        [] knobs.fence = "absent" -> << >>)
  \o blockLines(knobs)
  \o (IF knobs.fence = "absent" THEN << >> ELSE << << FENCE >> >>)
  \o (IF knobs.tail = "labels" THEN [k \in 1..7 |-> << REQUIRED_PROMPT_CONTRACT_ITEMS[k], COLON >>]
      ELSE << >>)

otherLines(knobs, targetAgent) ==
  (CASE knobs.adapter = "canonical" -> << buildAdapterHeading(targetAgent), << WORD >> >>
     [] knobs.adapter = "other" -> << buildAdapterHeading("gemini"), << WORD >> >>
     [] knobs.adapter = "variant" -> << << HASH, HASH, HASH, SP, "target adapter" >>, << WORD >> >>
     [] knobs.adapter = "none" -> << >>)
  \o (CASE knobs.why = "canonical" -> << WHY_HEADING, << "-", SP, WORD >> >>
        [] knobs.why = "variant" -> << << HASH, "why this prompt works", SP, WORD >> >>
        [] knobs.why = "none" -> << >>)
  \o (CASE knobs.checklist = "canonical" ->
             << CHECKLIST_HEADING, << "-", SP, "Failure Handling", COLON, SP, WORD >> >>
        [] knobs.checklist = "variant" -> << << HASH, HASH, SP, "quality checklist" >> >>
        [] knobs.checklist = "none" -> << >>)
  \o (IF knobs.second = "core"
      THEN << << HASH, SP, "final prompt" >>, << FENCE >>, << WORD >>, << FENCE >> >>
      ELSE << >>)

lineBreak(knobs) ==
  CASE knobs.spacing = "lf" -> << NL >>
    [] knobs.spacing = "crlf" -> << CR, NL >>
    [] knobs.spacing = "blank" -> << SP, NL, NL, NL >>
    [] knobs.spacing = "nbsp" -> << NBSP, NL >>

RawOutput(knobs, targetAgent) ==
  Join(coreLines(knobs, targetAgent) \o otherLines(knobs, targetAgent), lineBreak(knobs))

InitStability ==
  /\ SseIdle
  /\ ExecIdle
  /\ FallbackIdle
  /\ HandlerIdle
  /\ ParseIdle
  /\ RateIdle
  /\ GuardIdle
  /\ SplitIdle
  /\ TrimIdle
  /\ ClientIdle
  /\ ChatIdle
  /\ stPc = "on"
  /\ stKnobs \in Knobs
  /\ stAgent \in StabilityAgents
  /\ stText = RawOutput(stKnobs, stAgent)
  /\ stPrev = << >>
  /\ stPasses = 0
  /\ stValidated = FALSE
  /\ stValidation = NoValidation

Normalize ==
  /\ stPc = "on"
  /\ stPasses < MaxPasses
  /\ stPrev' = stText
  /\ stText' = normalizeGeneratedPromptOutput(stText, stAgent)
  /\ stPasses' = stPasses + 1
  /\ stValidated' = FALSE
  /\ stValidation' = NoValidation
  /\ UNCHANGED << stPc, stKnobs, stAgent, notStabVars >>

Validate ==
  /\ stPc = "on"
  /\ ~stValidated
  /\ stValidation' = validateGeneratedPromptOutput(stText, stAgent)
  /\ stValidated' = TRUE
  /\ UNCHANGED << stPc, stKnobs, stAgent, stText, stPrev, stPasses, notStabVars >>

NextStability == Normalize \/ Validate
SpecStability == InitStability /\ [][NextStability]_vars

\* sub is a subsequence of full: some of its elements, in the same order
IsSubsequence(sub, full) == \E S \in SUBSET (1..Len(full)) : sub = Pick(full, S)

hasCanonicalHeadings(knobs) ==
  /\ knobs.core = "canonical" /\ knobs.adapter = "canonical"
  /\ knobs.why = "canonical" /\ knobs.checklist = "canonical"
\* the raw output has a fenced block in its core section
hasCoreFencedBlock(knobs) == knobs.core = "canonical" /\ knobs.fence # "absent"

\* C14: an output with the four canonical headings and, in the core section, a
\* fenced block with a line for each of the seven labels is valid, whatever
\* else the block and the sections contain and whatever tag the fence carries.
C14_CompleteOutputIsValid ==
  (stValidated /\ stPasses = 0 /\ hasCanonicalHeadings(stKnobs)
     /\ hasCoreFencedBlock(stKnobs) /\ stKnobs.labels = "all") =>
    /\ stValidation.isValid
    /\ stValidation.missingHeadings = << >>
    /\ stValidation.missingContractItems = << >>
    /\ ~stValidation.missingTextCodeBlock

\* the required labels without a label line inside the fenced block
labelsNotInBlock(knobs) ==
  Pick(REQUIRED_PROMPT_CONTRACT_ITEMS, (1..7) \ labelsKept(knobs))

\* C15: for an output with a core fenced block missingContractItems is the
\* list of the labels with no label line inside the block, in schema order,
\* labels outside the block not counting; a complete artifact lacking only
\* Failure Handling gives that one label and is not valid.
C15_MissingItemsAreThoseNotInBlock ==
  (stValidated /\ stPasses = 0 /\ hasCoreFencedBlock(stKnobs)) =>
    /\ stValidation.missingContractItems = labelsNotInBlock(stKnobs)
    /\ stKnobs = [DefaultKnobs EXCEPT !.labels = "noFailureHandling"] =>
         /\ stValidation.missingContractItems = << "Failure Handling" >>
         /\ ~stValidation.isValid

\* the case of the repository test: only Failure Handling is missing
C15_OnlyFailureHandlingMissing ==
  (stValidated /\ stPasses = 0
     /\ stKnobs = [DefaultKnobs EXCEPT !.labels = "noFailureHandling"]) =>
    /\ stValidation.missingContractItems = << "Failure Handling" >>
    /\ ~stValidation.isValid

\* C16: normalize is idempotent: a second application changes nothing.
C16_NormalizeIdempotent == stPasses = 2 => stText = stPrev

\* a heading-line variant: one to three hashes, then a known phrase
isVariantLine(line, phrases) ==
  \E n \in 1..3 :
    /\ Len(line) > n
    /\ \A i \in 1..n : line[i] = HASH
    /\ RunEnd({SP, NBSP}, line, n + 1) <= Len(line)
    /\ line[RunEnd({SP, NBSP}, line, n + 1)] \in phrases
\* every variant line of the text is the canonical heading
variantsAre(text, phrases, heading) ==
  \A k \in 1..Len(SplitLines(text)) :
    isVariantLine(SplitLines(text)[k], phrases) => SplitLines(text)[k] = heading
\* the raw output has some variant of each of the four headings
hasHeadingVariants(knobs) ==
  /\ knobs.core # "none" /\ knobs.adapter # "none"
  /\ knobs.why # "none" /\ knobs.checklist # "none"

\* C17: after normalize(x, t) every heading-line variant is the canonical
\* heading of its section, the adapter heading naming t; and when x has a
\* variant of each of the four headings validate finds no heading missing.
C17_HeadingVariantsCanonicalized ==
  stPasses >= 1 =>
    /\ variantsAre(stText, FinalPhraseAtoms, FINAL_PROMPT_HEADING)
    /\ variantsAre(stText, AdapterPhraseAtoms, buildAdapterHeading(stAgent))
    /\ variantsAre(stText, WhyPhraseAtoms, WHY_HEADING)
    /\ variantsAre(stText, ChecklistPhraseAtoms, CHECKLIST_HEADING)
    /\ (stValidated /\ hasHeadingVariants(stKnobs)) =>
         stValidation.missingHeadings = << >>

\* a one-hash core heading and an adapter heading naming another target were
\* rewritten, and no heading is missing
C17_Witness ==
  /\ stPasses = 1 /\ stValidated
  /\ stKnobs.core = "variant" /\ stKnobs.adapter = "other" /\ stAgent = "kiro"
  /\ stValidation.missingHeadings = << >>

(***************************************************************************)
(* SpecRate: checkRateLimit called by requests that arrive, for two keys,  *)
(* at any time while earlier requests are still being handled              *)
(***************************************************************************)
MaxLimit == 3
MaxTimeMs == 2500
MaxWindowRequests == 4
MaxInFlight == 2
RateWindows == {1000, 1500}
TickSteps == {500, 1000}
\* the store size from which cleanupRateLimitStore prunes (2048 in the code,
\* scaled to the two keys of the model)
CLEANUP_MIN_SIZE == 2

\* Math.ceil(ms / 1000)
ceilSeconds(ms) == (ms + 999) \div 1000

\* entry.resetAt <= now
isExpiredEntry_whateverTheTime(entry, now) == TRUE
isExpiredEntry(entry, now) == entry.resetAt <= now

cleanupRateLimitStore(store, now) ==
  IF Cardinality({k \in DOMAIN store : store[k].present}) < CLEANUP_MIN_SIZE THEN store
  ELSE [k \in DOMAIN store |->
          IF store[k].present /\ isExpiredEntry(store[k], now) THEN NoEntry ELSE store[k]]

\* !current || current.resetAt <= now
windowExpired_strictlyAfter(current, now) == ~current.present \/ current.resetAt < now
windowExpired(current, now) == ~current.present \/ current.resetAt <= now

\* current.count >= limit
isExhausted_oneMore(current, limit) == current.count > limit
isExhausted(current, limit) == current.count >= limit

\* current.count += 1
incremented_lost(current) == current
incremented(current) == [current EXCEPT !.count = @ + 1]

\* the result of checkRateLimit and the store it leaves
rateResult(store, now, allowed, retryAfterSeconds, limit, remaining) ==
  [store |-> store, at |-> now, allowed |-> allowed,
   retryAfterSeconds |-> retryAfterSeconds, limit |-> limit, remaining |-> remaining]

checkEntry(cleaned, key, current, now, limit, windowMs) ==
  IF windowExpired(current, now)
  THEN rateResult([cleaned EXCEPT ![key] =
                     [present |-> TRUE, count |-> 1, resetAt |-> now + windowMs]],
                  now, TRUE, ceilSeconds(windowMs), limit, Max({limit - 1, 0}))
  ELSE IF isExhausted(current, limit)
  THEN rateResult(cleaned, now, FALSE, Max({ceilSeconds(current.resetAt - now), 1}),
                  limit, 0)
  ELSE rateResult([cleaned EXCEPT ![key] = incremented(current)], now, TRUE,
                  Max({ceilSeconds(current.resetAt - now), 1}), limit,
                  Max({limit - incremented(current).count, 0}))

checkRateLimit(store, key, now, limit, windowMs) ==
  checkEntry(cleanupRateLimitStore(store, now), key,
             cleanupRateLimitStore(store, now)[key], now, limit, windowMs)

\* checkRateLimit on a store that is never pruned
checkUnpruned(store, key, now, limit, windowMs) ==
  checkEntry(store, key, store[key], now, limit, windowMs)

\* what a request was answered
answerOf(result) ==
  [allowed |-> result.allowed, remaining |-> result.remaining,
   retryAfterSeconds |-> result.retryAfterSeconds]

InitRate ==
  /\ SseIdle
  /\ ExecIdle
  /\ FallbackIdle
  /\ HandlerIdle
  /\ ParseIdle
  /\ StabilityIdle
  /\ GuardIdle
  /\ SplitIdle
  /\ TrimIdle
  /\ ClientIdle
  /\ ChatIdle
  /\ rlPc = "on"
  /\ rlLimit \in 1..MaxLimit
  /\ rlWindowMs \in RateWindows
  /\ rlNow = 0
  /\ rlStore = [k \in RateKeys |-> NoEntry]
  /\ rlLog = [k \in RateKeys |-> << >>]
  /\ rlInFlight = [k \in RateKeys |-> 0]
  /\ rlUnpruned = [k \in RateKeys |-> NoEntry]

\* a request of the key arrives: the handler runs up to its first await, which
\* is after checkRateLimit; an admitted request is handled from then on
Arrive(key) ==
  /\ rlPc = "on"
  /\ Len(rlLog[key]) < MaxWindowRequests
  /\ rlInFlight[key] < MaxInFlight
  /\ LET served(result, unpruned) ==
           LET entry == [at |-> result.at, allowed |-> result.allowed,
                         remaining |-> result.remaining,
                         retryAfterSeconds |-> result.retryAfterSeconds,
                         unpruned |-> answerOf(unpruned),
                         pruned |-> (rlUnpruned[key].present /\ ~rlStore[key].present)]
           IN /\ rlStore' = result.store
              /\ rlUnpruned' = unpruned.store
              /\ rlLog' = [rlLog EXCEPT ![key] =
                             IF ~rlStore[key].present \/ rlNow >= rlStore[key].resetAt
                             THEN << entry >>
                             ELSE Append(@, entry)]
              /\ rlInFlight' = [rlInFlight EXCEPT ![key] = IF result.allowed THEN @ + 1 ELSE @]
     IN served(checkRateLimit(rlStore, key, rlNow, rlLimit, rlWindowMs),
               checkUnpruned(rlUnpruned, key, rlNow, rlLimit, rlWindowMs))
  /\ UNCHANGED << rlPc, rlLimit, rlWindowMs, rlNow, notRateVars >>

\* the handling of an admitted request ends
Finish(key) ==
  /\ rlPc = "on"
  /\ rlInFlight[key] > 0
  /\ rlInFlight' = [rlInFlight EXCEPT ![key] = @ - 1]
  /\ UNCHANGED << rlPc, rlLimit, rlWindowMs, rlNow, rlStore, rlLog, rlUnpruned, notRateVars >>

\* time passes
Tick ==
  /\ rlPc = "on"
  /\ \E step \in TickSteps :
       /\ rlNow + step <= MaxTimeMs
       /\ rlNow' = rlNow + step
  /\ UNCHANGED << rlPc, rlLimit, rlWindowMs, rlStore, rlLog, rlInFlight, rlUnpruned, notRateVars >>

NextRate ==
  \/ \E key \in RateKeys : Arrive(key)
  \/ \E key \in RateKeys : Finish(key)
  \/ Tick
SpecRate == InitRate /\ [][NextRate]_vars

\* how many of the logged requests were allowed
allowedIn(log) == Cardinality({i \in 1..Len(log) : log[i].allowed})

\* C18: within one window of a key the first rlLimit requests are allowed, with
\* remaining counting down from rlLimit - 1 to 0, and every later one is denied
\* with remaining 0; the stored count never exceeds the limit and is the number
\* of requests allowed in the window.
C18_FirstLimitRequestsAllowed ==
  \A k \in RateKeys :
    /\ \A i \in 1..Len(rlLog[k]) :
         IF i <= rlLimit
         THEN rlLog[k][i].allowed /\ rlLog[k][i].remaining = rlLimit - i
         ELSE ~rlLog[k][i].allowed /\ rlLog[k][i].remaining = 0
    /\ rlStore[k].present =>
         /\ rlStore[k].count <= rlLimit
         /\ rlStore[k].count = allowedIn(rlLog[k])

\* limit 3: four requests in one window, the fourth denied with remaining 0
C18_Witness ==
  \E k \in RateKeys :
    /\ rlLimit = 3
    /\ Len(rlLog[k]) = 4
    /\ [i \in 1..4 |-> rlLog[k][i].allowed] = << TRUE, TRUE, TRUE, FALSE >>
    /\ rlLog[k][4].remaining = 0

\* C19: a request of a key that arrives before resetAt never resets the entry,
\* and leaves count and resetAt unchanged when it is denied; a request that
\* arrives at or after resetAt (or finds no entry) is allowed and sets count to
\* 1 and resetAt to now + window; nothing else changes the entry of a key, but
\* for the pruning of an expired entry.
C19_WindowResetOnlyAtExpiry ==
  [][\A k \in RateKeys :
       IF rlLog'[k] # rlLog[k]
       THEN IF rlStore[k].present /\ rlNow < rlStore[k].resetAt
            THEN /\ rlStore'[k].present
                 /\ rlStore'[k].resetAt = rlStore[k].resetAt
                 /\ ~rlLog'[k][Len(rlLog'[k])].allowed => rlStore'[k] = rlStore[k]
            ELSE /\ rlLog'[k][Len(rlLog'[k])].allowed
                 /\ rlStore'[k] =
                      [present |-> TRUE, count |-> 1, resetAt |-> rlNow + rlWindowMs]
       ELSE \/ rlStore'[k] = rlStore[k]
            \/ rlStore[k].resetAt <= rlNow /\ rlStore'[k] = NoEntry]_vars

\* a request denied later in the window left resetAt where the first request
\* of the window had put it
C19_Witness ==
  \E k \in RateKeys :
    /\ Len(rlLog[k]) >= 2
    /\ ~rlLog[k][Len(rlLog[k])].allowed
    /\ rlLog[k][Len(rlLog[k])].at > rlLog[k][1].at
    /\ rlStore[k].present
    /\ rlStore[k].resetAt = rlLog[k][1].at + rlWindowMs

\* C20: whatever requests of a key are being handled when another one arrives,
\* no increment is lost (the count is the number of requests allowed in the
\* window), no more than rlLimit are allowed in a window, and no two allowed
\* requests are given the same remaining slot.
C20_NoLostIncrement ==
  \A k \in RateKeys :
    /\ allowedIn(rlLog[k]) <= rlLimit
    /\ rlStore[k].present => rlStore[k].count = allowedIn(rlLog[k])
    /\ \A i, j \in 1..Len(rlLog[k]) :
         (i < j /\ rlLog[k][i].allowed /\ rlLog[k][j].allowed) =>
           rlLog[k][i].remaining > rlLog[k][j].remaining

\* two requests of a key that arrived at the same time are both being handled
C20_Witness ==
  \E k \in RateKeys :
    /\ rlInFlight[k] = 2
    /\ Len(rlLog[k]) >= 2
    /\ rlLog[k][1].at = rlLog[k][2].at
    /\ rlLog[k][1].allowed /\ rlLog[k][2].allowed
    /\ rlStore[k].count = 2

\* the entries in the store
storeSize(store) == Cardinality({k \in DOMAIN store : store[k].present})

\* C33: an entry leaves the store only when the store has reached its size
\* threshold and the window of the entry has expired; every request is
\* answered as it would be by a store that is never pruned (allowed or
\* denied, remaining, retry time), and every entry in the store is the entry
\* of the store never pruned.
C33_PruningChangesNoDecision ==
  [][\A k \in RateKeys :
       /\ (rlStore[k].present /\ ~rlStore'[k].present) =>
            /\ storeSize(rlStore) >= CLEANUP_MIN_SIZE
            /\ rlStore[k].resetAt <= rlNow
       /\ rlStore'[k].present => rlStore'[k] = rlUnpruned'[k]
       /\ (rlUnpruned'[k].present /\ ~rlStore'[k].present) =>
            rlUnpruned'[k].resetAt <= rlNow'
       /\ \A i \in 1..Len(rlLog'[k]) :
            rlLog'[k][i].unpruned =
              [allowed |-> rlLog'[k][i].allowed, remaining |-> rlLog'[k][i].remaining,
               retryAfterSeconds |-> rlLog'[k][i].retryAfterSeconds]]_vars

\* a request of a key whose expired entry had been pruned by a request of the
\* other key, allowed with a new window
C33_Witness ==
  \E k \in RateKeys :
    /\ Len(rlLog[k]) = 1
    /\ rlLog[k][1].pruned /\ rlLog[k][1].allowed
    /\ rlStore[k] = [present |-> TRUE, count |-> 1, resetAt |-> rlLog[k][1].at + rlWindowMs]


(***************************************************************************)
(* SpecGuard: handler and handleGenerate from the arrival of a request to  *)
(* the end of its response, with the headers, the environment and the body *)
(* stream spelled out.  The request is served twice, from the same store   *)
(* and with the same body chunks and provider outcome: as sent (gdA) and   *)
(* with another Origin header (gdB).                                       *)
(***************************************************************************)
MaxBodyChars == 2
MaxBodyBytes == 2
GuardLimit == 2
GuardWindowMs == 1000

\* readEnvValue: the trimmed value, the empty text standing for undefined
readEnvValue(rawValue) == Trim(rawValue)

\* header values, as the HTTP parser hands them over (no outer white space);
\* the empty text stands for a header that was not sent
SECRET == "S"
BearerWords == {"Bearer", "bearer", "BEARER"}
HeaderAtoms == BearerWords \cup {SECRET, "W", "Basic", "BearerS", SP}
\* /^Bearer\s+(.+)$/i
BearerPattern ==
  << One(BearerWords), Plus(WsAtoms), Plus(HeaderAtoms \ {NL}), Eos >>

\* match[1]: \s+ is greedy and leaves one atom at least to the group
bearerGroup(header) ==
  Slice(header, Min({RunEnd(WsAtoms, header, 2), Len(header)}), Len(header) + 1)

extractBearerToken(authorizationHeader) ==
  IF authorizationHeader = << >> THEN << >>
  ELSE IF ~MatchesAt(BearerPattern, authorizationHeader, 1) THEN << >>
  ELSE Trim(bearerGroup(authorizationHeader))

isAuthorizedWith_anyScheme(expectedToken, proxyAuthHeader, authorizationHeader) ==
  \/ expectedToken = << >>
  \/ proxyAuthHeader # << >> /\ proxyAuthHeader = expectedToken
  \/ authorizationHeader # << >> /\ Trim(Tail(authorizationHeader)) = expectedToken
isAuthorizedWith(expectedToken, proxyAuthHeader, authorizationHeader) ==
  \/ expectedToken = << >>
  \/ proxyAuthHeader # << >> /\ proxyAuthHeader = expectedToken
  \/ extractBearerToken(authorizationHeader) = expectedToken

isAuthorizedRequest(req, env) ==
  isAuthorizedWith(readEnvValue(env.authToken), Trim(req.proxyAuth), req.authorization)

\* getAllowedCorsOrigins
DEFAULT_ALLOWED_CORS_ORIGINS == {"https://prompt-arcgent.vercel.app"}
getAllowedCorsOrigins(env) == DEFAULT_ALLOWED_CORS_ORIGINS \cup env.extraOrigins

\* applyCorsHeaders: the origin written to Access-Control-Allow-Origin
applyCorsHeaders_reflectAny(served, origin, allowedOrigins) ==
  IF origin = "" THEN served ELSE [served EXCEPT !.cors = origin]
applyCorsHeaders(served, origin, allowedOrigins) ==
  IF origin = "" \/ origin \notin allowedOrigins THEN served
  ELSE [served EXCEPT !.cors = origin]

\* sendJson
sendJson(served, statusCode, error) ==
  IF served.ended THEN [served EXCEPT !.pc = "done"]
  ELSE [served EXCEPT !.status = statusCode, !.error = error, !.ended = TRUE,
                      !.pc = "done"]

\* the bytes of a character in UTF-8
LEAD == "C3"
CONT == "A9"
REPLACEMENT == "U+FFFD"
\* a character of two bytes
EACUTE == "e-acute"
encodeChar(c) == IF c = EACUTE THEN << LEAD, CONT >> ELSE << c >>
encodeUtf8(text) == Flatten([k \in 1..Len(text) |-> encodeChar(text[k])])
\* Buffer.prototype.toString('utf8'): a byte sequence that is not complete
\* decodes to the replacement character
RECURSIVE decodeUtf8(_)
decodeUtf8(bytes) ==
  IF bytes = << >> THEN << >>
  ELSE IF Head(bytes) = LEAD
  THEN IF Len(bytes) >= 2 /\ bytes[2] = CONT
       THEN << EACUTE >> \o decodeUtf8(Tail(Tail(bytes)))
       ELSE << REPLACEMENT >> \o decodeUtf8(Tail(bytes))
  ELSE IF Head(bytes) = CONT THEN << REPLACEMENT >> \o decodeUtf8(Tail(bytes))
  ELSE << Head(bytes) >> \o decodeUtf8(Tail(bytes))

\* readJsonBody returned: parseGenerateRequestPayload, then the stream headers
\* and the call of generatePromptArtifact
bodyReturned_callsFirst(served, rawBody) ==
  IF rawBody = << >> \/ served.req.json = "badPayload"
  THEN sendJson([served EXCEPT !.data = rawBody, !.bodyReturned = TRUE, !.calls = @ + 1],
                400, "Invalid payload. Expected { messages: [] }.")
  ELSE IF served.req.json = "badJson"
  THEN sendJson([served EXCEPT !.data = rawBody, !.bodyReturned = TRUE], 400,
                "Invalid JSON body.")
  ELSE [served EXCEPT !.data = rawBody, !.bodyReturned = TRUE, !.status = 200,
                      !.calls = @ + 1, !.pc = "generating"]
bodyReturned(served, rawBody) ==
  IF rawBody = << >> \/ served.req.json = "badPayload"
  THEN sendJson([served EXCEPT !.data = rawBody, !.bodyReturned = TRUE], 400,
                "Invalid payload. Expected { messages: [] }.")
  ELSE IF served.req.json = "badJson"
  THEN sendJson([served EXCEPT !.data = rawBody, !.bodyReturned = TRUE], 400,
                "Invalid JSON body.")
  ELSE [served EXCEPT !.data = rawBody, !.bodyReturned = TRUE, !.status = 200,
                      !.calls = @ + 1, !.pc = "generating"]

bodyTooLarge(served) == sendJson(served, 413, "Request body exceeds limit.")

\* readBody up to its first await
readBody(served, maxBytes) ==
  IF served.req.preset
  THEN IF Len(encodeUtf8(served.req.body)) > maxBytes THEN bodyTooLarge(served)
       ELSE bodyReturned(served, served.req.body)
  ELSE IF served.req.declared /\ Len(encodeUtf8(served.req.body)) > maxBytes
  THEN bodyTooLarge(served)
  ELSE [served EXCEPT !.pc = "reading"]

\* handleGenerate up to its first await
handleGenerate(served, env) ==
  IF served.req.method # "POST" THEN sendJson(served, 405, "Method Not Allowed. Use POST.")
  ELSE readBody([served EXCEPT !.readStarted = TRUE], env.maxBytes)

\* handler after applyCorsHeaders, up to its first await
afterCors_methodFirst(served, env) ==
  IF served.req.method = "OPTIONS"
  THEN [served EXCEPT !.status = 204, !.ended = TRUE, !.pc = "done"]
  ELSE IF ~isAuthorizedRequest(served.req, env)
  THEN sendJson(served, 401, "Unauthorized request.")
  ELSE IF served.req.method # "POST"
  THEN sendJson(served, 405, "Method Not Allowed. Use POST.")
  ELSE LET limited(rateLimit) ==
             IF ~rateLimit.allowed
             THEN sendJson([served EXCEPT !.store = rateLimit.store, !.rateChecked = TRUE],
                           429, "Rate limit exceeded. Please retry later.")
             ELSE handleGenerate([served EXCEPT !.store = rateLimit.store,
                                                !.rateChecked = TRUE], env)
       IN limited(checkRateLimit(served.store, served.req.key, 0, GuardLimit,
                                 GuardWindowMs))
afterCors(served, env) ==
  IF served.req.method = "OPTIONS"
  THEN [served EXCEPT !.status = 204, !.ended = TRUE, !.pc = "done"]
  ELSE IF ~isAuthorizedRequest(served.req, env)
  THEN sendJson(served, 401, "Unauthorized request.")
  ELSE LET limited(rateLimit) ==
             IF ~rateLimit.allowed
             THEN sendJson([served EXCEPT !.store = rateLimit.store, !.rateChecked = TRUE],
                           429, "Rate limit exceeded. Please retry later.")
             ELSE handleGenerate([served EXCEPT !.store = rateLimit.store,
                                                !.rateChecked = TRUE], env)
       IN limited(checkRateLimit(served.store, served.req.key, 0, GuardLimit,
                                 GuardWindowMs))

handler(served, env) ==
  afterCors(applyCorsHeaders(served, served.req.origin, getAllowedCorsOrigins(env)), env)

\* one turn of the for await loop of readBody: a chunk of n bytes arrives
readChunk(served, n, maxBytes) ==
  IF served.received + n > maxBytes
  THEN bodyTooLarge([served EXCEPT !.chunks = Append(@, n), !.received = @ + n,
                                   !.rest = Slice(@, n + 1, Len(@) + 1)])
  ELSE [served EXCEPT !.chunks = Append(@, n), !.received = @ + n,
                      !.data = @ \o decodeUtf8(SubSeq(served.rest, 1, n)),
                      !.rest = Slice(@, n + 1, Len(@) + 1)]

\* generatePromptArtifact returned or threw: the frames of handleGenerate
completed(served, outcome) ==
  [served EXCEPT !.frames = IF outcome = "returned" THEN << "chunk", "done" >>
                            ELSE << "error" >>,
                 !.ended = TRUE, !.pc = "done"]

RECURSIVE TextsUpTo(_, _)
TextsUpTo(S, n) ==
  IF n = 0 THEN { << >> }
  ELSE TextsUpTo(S, n - 1)
       \cup {Append(t, c) : t \in {u \in TextsUpTo(S, n - 1) : Len(u) = n - 1}, c \in S}

GuardOrigins ==
  {"", "https://prompt-arcgent.vercel.app", "https://extra.example", "https://evil.example"}
\* the X-Proxy-Auth and Authorization headers of a request
GuardCredentials ==
  { << << >>, << >> >>,
    << << SECRET >>, << >> >>,
    << << "W" >>, << >> >>,
    << << "W" >>, << "Bearer", SP, SECRET >> >>,
    << << >>, << "bearer", SP, SP, SECRET >> >>,
    << << >>, << "Bearer", SP, "W" >> >>,
    << << >>, << "Bearer", SP, SECRET, SP, "W" >> >>,
    << << >>, << "Basic", SP, SECRET >> >>,
    << << >>, << SECRET >> >>,
    << << >>, << "BearerS" >> >>,
    << << >>, << "Bearer" >> >> }
GuardEnvs ==
  [authToken : { << >>, << SECRET >>, << SP, SECRET, SP >> },
   extraOrigins : { {}, {"https://extra.example"} },
   maxBytes : {MaxBodyBytes}]
GuardRequests ==
  {[method |-> method, origin |-> origin, proxyAuth |-> credentials[1],
    authorization |-> credentials[2], key |-> key, preset |-> preset, body |-> body,
    json |-> json, declared |-> declared] :
     method \in {"OPTIONS", "GET", "POST"}, origin \in GuardOrigins,
     credentials \in GuardCredentials, key \in RateKeys, preset \in BOOLEAN,
     body \in TextsUpTo({"x", EACUTE}, MaxBodyChars), json \in {"ok", "badJson", "badPayload"},
     declared \in BOOLEAN}
\* the store the request meets: one key has used up its window, the other
\* has one request in it
GuardStore ==
  [k \in RateKeys |->
     [present |-> TRUE, count |-> IF k = "generate:a" THEN GuardLimit ELSE 1,
      resetAt |-> GuardWindowMs]]

Arrived(req) ==
  [NoServed EXCEPT !.pc = "arrived", !.req = req, !.store = GuardStore,
                   !.rest = IF req.preset THEN << >> ELSE encodeUtf8(req.body)]

InitGuard ==
  /\ SseIdle
  /\ ExecIdle
  /\ FallbackIdle
  /\ HandlerIdle
  /\ ParseIdle
  /\ StabilityIdle
  /\ RateIdle
  /\ SplitIdle
  /\ TrimIdle
  /\ ClientIdle
  /\ ChatIdle
  /\ gdPc = "on"
  /\ gdEnv \in GuardEnvs
  /\ \E req \in GuardRequests, other \in GuardOrigins :
       /\ other # req.origin
       /\ gdA = Arrived(req)
       /\ gdB = Arrived([req EXCEPT !.origin = other])

\* handler runs up to its first await
Handle ==
  /\ gdPc = "on"
  /\ gdA.pc = "arrived"
  /\ gdA' = handler(gdA, gdEnv)
  /\ gdB' = IF gdB.pc = "arrived" THEN handler(gdB, gdEnv) ELSE gdB
  /\ UNCHANGED << gdPc, gdEnv, notGuardVars >>

\* the request stream delivers its next chunk
ReadChunk ==
  /\ gdPc = "on"
  /\ gdA.pc = "reading"
  /\ \E n \in 1..Len(gdA.rest) :
       /\ gdA' = readChunk(gdA, n, gdEnv.maxBytes)
       /\ gdB' = IF gdB.pc = "reading" THEN readChunk(gdB, n, gdEnv.maxBytes) ELSE gdB
  /\ UNCHANGED << gdPc, gdEnv, notGuardVars >>

\* the request stream ends: readBody returns data
ReadEnd ==
  /\ gdPc = "on"
  /\ gdA.pc = "reading"
  /\ gdA.rest = << >>
  /\ gdA' = bodyReturned(gdA, gdA.data)
  /\ gdB' = IF gdB.pc = "reading" THEN bodyReturned(gdB, gdB.data) ELSE gdB
  /\ UNCHANGED << gdPc, gdEnv, notGuardVars >>

\* generatePromptArtifact returns or throws
Complete ==
  /\ gdPc = "on"
  /\ gdA.pc = "generating"
  /\ \E outcome \in {"returned", "threw"} :
       /\ gdA' = completed(gdA, outcome)
       /\ gdB' = IF gdB.pc = "generating" THEN completed(gdB, outcome) ELSE gdB
  /\ UNCHANGED << gdPc, gdEnv, notGuardVars >>

NextGuard ==
  \/ Handle
  \/ ReadChunk
  \/ ReadEnd
  \/ Complete
SpecGuard == InitGuard /\ [][NextGuard]_vars

(***************************************************************************)
(* Properties of the request guards                                        *)
(***************************************************************************)
\* the Authorization header uses the Bearer scheme with the token
bearerOf(header, token) ==
  \E n \in 2..Len(header) :
    /\ header[1] \in BearerWords
    /\ \A i \in 2..n : header[i] \in WsAtoms
    /\ SubSeq(header, n + 1, Len(header)) = token
credentialsMatch(req, secret) ==
  req.proxyAuth = secret \/ bearerOf(req.authorization, secret)
\* nothing of the rate limiter, the body or the provider was touched
nothingProcessed(served) ==
  /\ ~served.rateChecked /\ served.store = GuardStore
  /\ ~served.readStarted /\ served.chunks = << >> /\ served.calls = 0
  /\ served.frames = << >> /\ served.pc = "done"

\* C21 as stated: with a secret configured, isAuthorizedRequest is true exactly
\* for a request whose X-Proxy-Auth header is the secret or whose Authorization
\* header is Bearer with the secret, every other request is answered 401
\* before any rate-limit, body or provider processing; without a secret no
\* request is answered 401.
C21_UnauthorizedIsAnswered401 ==
  gdA.pc # "arrived" =>
    IF Trim(gdEnv.authToken) = << >> THEN gdA.status # 401
    ELSE /\ isAuthorizedRequest(gdA.req, gdEnv)
              <=> credentialsMatch(gdA.req, Trim(gdEnv.authToken))
         /\ credentialsMatch(gdA.req, Trim(gdEnv.authToken)) => gdA.status # 401
         /\ ~credentialsMatch(gdA.req, Trim(gdEnv.authToken)) =>
              gdA.status = 401 /\ nothingProcessed(gdA)

\* C21, amended: the same for every request but an OPTIONS request, which is
\* answered 204 before the authorization check, whatever its credentials, and
\* without any rate-limit, body or provider processing.
C21_UnauthorizedIsAnswered401UnlessOptions ==
  gdA.pc # "arrived" =>
    IF gdA.req.method = "OPTIONS" THEN gdA.status = 204 /\ nothingProcessed(gdA)
    ELSE IF Trim(gdEnv.authToken) = << >> THEN gdA.status # 401
    ELSE /\ isAuthorizedRequest(gdA.req, gdEnv)
              <=> credentialsMatch(gdA.req, Trim(gdEnv.authToken))
         /\ credentialsMatch(gdA.req, Trim(gdEnv.authToken)) => gdA.status # 401
         /\ ~credentialsMatch(gdA.req, Trim(gdEnv.authToken)) =>
              gdA.status = 401 /\ nothingProcessed(gdA)

\* a secret is configured; a request with a wrong X-Proxy-Auth value and a
\* lower-case bearer token got past the check, one with another scheme did not
C21_Witness ==
  /\ Trim(gdEnv.authToken) = << SECRET >>
  /\ gdA.req.method = "POST"
  /\ \/ /\ gdA.req.authorization = << "bearer", SP, SP, SECRET >>
        /\ gdA.rateChecked
     \/ /\ gdA.req.authorization = << "Basic", SP, SECRET >>
        /\ gdA.status = 401

\* the handling of a request, its Origin header and the Access-Control
\* headers of the response left out
apartFromOrigin(served) == [served EXCEPT !.req.origin = "", !.cors = ""]
\* Access-Control-Allow-Origin carries the origin of the request
reflected(served) == served.req.origin # "" /\ served.cors = served.req.origin

\* C22: two requests that differ in their Origin header only are handled
\* alike: same status code, body or frames, rate-limit store, body reads and
\* provider calls at every step; the Access-Control headers are set with the
\* origin of the request if and only if that origin is in the allow-set, and
\* are not set otherwise.
C22_OriginOnlyDecidesCorsHeaders ==
  /\ apartFromOrigin(gdA) = apartFromOrigin(gdB)
  /\ \A served \in {gdA, gdB} :
       served.pc # "arrived" =>
         /\ reflected(served) <=> served.req.origin \in getAllowedCorsOrigins(gdEnv)
         /\ ~reflected(served) => served.cors = ""

\* a request from an origin outside the allow-set and the same request from
\* an allowed origin were both served to the done frame, the second with the
\* Access-Control headers
C22_Witness ==
  /\ gdA.req.origin = "https://evil.example" /\ gdA.cors = ""
  /\ gdB.req.origin = "https://extra.example" /\ gdB.cors = "https://extra.example"
  /\ gdA.status = 200 /\ gdA.frames = << "chunk", "done" >>
  /\ gdB.status = 200 /\ gdB.frames = << "chunk", "done" >>

RECURSIVE SumSeq(_)
SumSeq(ns) == IF ns = << >> THEN 0 ELSE Head(ns) + SumSeq(Tail(ns))
\* the size of the body of a request in bytes
bodyBytes(req) == Len(encodeUtf8(req.body))

\* C23, the cap: a body larger than the cap is never returned by readBody; a
\* declared length above the cap ends readBody with 413 before any chunk is
\* consumed; while reading, the chunk that takes the received byte count above
\* the cap ends readBody with 413 and is the last one read.
C23_NoBodyAboveCapAccepted ==
  /\ gdA.bodyReturned => bodyBytes(gdA.req) <= gdEnv.maxBytes
  /\ (gdA.readStarted /\ gdA.req.declared /\ bodyBytes(gdA.req) > gdEnv.maxBytes) =>
       gdA.status = 413 /\ gdA.chunks = << >> /\ gdA.pc = "done"
  /\ SumSeq(gdA.chunks) > gdEnv.maxBytes =>
       /\ gdA.status = 413 /\ gdA.pc = "done" /\ ~gdA.bodyReturned
       /\ SumSeq(SubSeq(gdA.chunks, 1, Len(gdA.chunks) - 1)) <= gdEnv.maxBytes
  /\ gdA.status = 413 => bodyBytes(gdA.req) > gdEnv.maxBytes

\* C23: no body above the cap is accepted, as above, and a body of at most the
\* cap is returned by readBody complete and unchanged.
C23_BodyWithinCapReturnedUnchanged ==
  /\ C23_NoBodyAboveCapAccepted
  /\ gdA.bodyReturned => gdA.data = gdA.req.body

\* the guards a request passes, in the words of the request
authorizedReq == gdEnv.authToken = << >> \/ Trim(gdEnv.authToken) = << >>
                 \/ credentialsMatch(gdA.req, Trim(gdEnv.authToken))
quotaLeft == GuardStore[gdA.req.key].count < GuardLimit
withinCap == bodyBytes(gdA.req) <= gdEnv.maxBytes
\* the status the guards give the request, 200 when it passes them all
statusByGuards ==
  IF gdA.req.method = "OPTIONS" THEN 204
  ELSE IF ~authorizedReq THEN 401
  ELSE IF ~quotaLeft THEN 429
  ELSE IF gdA.req.method # "POST" THEN 405
  ELSE IF ~withinCap THEN 413
  ELSE IF gdA.req.body = << >> \/ gdA.req.json # "ok" THEN 400
  ELSE 200

\* C34: a request answered 401, 429, 405, 413 or 400 caused no provider call
\* and no NDJSON frame and got that status with a JSON error body; the
\* provider is called only for a request that passed every guard: authorized,
\* within its quota, a POST, with a body within the cap that is valid JSON of
\* the right shape.
C34_ProviderCalledOnlyAfterGuards ==
  /\ gdA.status \in {401, 429, 405, 413, 400} =>
       /\ gdA.calls = 0 /\ gdA.frames = << >>
       /\ gdA.ended /\ gdA.pc = "done" /\ gdA.error # "none"
       /\ gdA.status = statusByGuards
  /\ (gdA.calls > 0 \/ gdA.frames # << >>) =>
       /\ gdA.calls = 1
       /\ gdA.status = 200 /\ statusByGuards = 200
       /\ gdA.error = "none"
  /\ gdA.pc = "done" => gdA.status = statusByGuards

\* a streamed body that turned out to be above the cap: 413, no provider call
C34_Witness ==
  /\ gdA.status = 413 /\ gdA.chunks # << >> /\ ~gdA.req.declared
  /\ gdA.calls = 0 /\ gdA.frames = << >> /\ gdA.pc = "done"

\* C38: the guards run in the order preflight, authorization, rate limit,
\* method, body: a request answered 204 or 401 leaves the rate-limit store as
\* it was; every other request either takes one unit of the quota of its key,
\* whether it is then answered 405, 413, 400 or served, or is answered 429.
C38_GuardOrderAndQuota ==
  gdA.pc # "arrived" =>
    /\ gdA.pc = "done" => gdA.status = statusByGuards
    /\ gdA.status \in {204, 401} => (gdA.store = GuardStore /\ ~gdA.rateChecked)
    /\ gdA.status = 429 => (gdA.store = GuardStore /\ gdA.rateChecked /\ ~quotaLeft)
    /\ gdA.status \notin {204, 401, 429} =>
         /\ gdA.rateChecked
         /\ gdA.store = [GuardStore EXCEPT ![gdA.req.key].count = @ + 1]

\* an authorized GET: answered 405 after a unit of the quota was taken
C38_Witness ==
  /\ gdA.status = 405 /\ gdA.pc = "done"
  /\ gdA.req.method = "GET" /\ gdA.req.key = "generate:b"
  /\ gdA.store["generate:b"].count = 2

(***************************************************************************)
(* Spec: the generate handler, from the inbound request to the end of the  *)
(* response.  The completion calls are awaited: each returns some text or  *)
(* throws.  Handler "artifact" is the handler built on                     *)
(* generatePromptArtifact, handler "direct" the one that relays the        *)
(* provider stream frame by frame.                                         *)
(***************************************************************************)
\* the chunk size of splitIntoStreamChunks, counted in atoms
StreamChunkAtoms == 80
MaxDirectChunks == 2

splitIntoStreamChunks(output, chunkSize) ==
  IF output = << >> THEN << << >> >>
  ELSE [k \in 1..((Len(output) + chunkSize - 1) \div chunkSize) |->
          Slice(output, (k - 1) * chunkSize + 1, Min({k * chunkSize, Len(output)}) + 1)]

ChunkFrame(text) == [type |-> "chunk", text |-> text]
MetaFrame == [type |-> "meta", text |-> << "auto_repair_applied" >>]
DoneFrame == [type |-> "done", text |-> << >>]
ErrorFrame(message) == [type |-> "error", text |-> message]

\* sendNdjson
sendNdjson(frames, writableEnded, frame) ==
  IF ~writableEnded THEN Append(frames, frame) ELSE frames

\* the frames handleGenerate writes for a result, the terminal frame left out
framesBeforeDone_metaFirst(output, repaired) ==
  LET chunks == splitIntoStreamChunks(output, StreamChunkAtoms)
  IN (IF repaired THEN << MetaFrame >> ELSE << >>)
     \o [k \in 1..Len(chunks) |-> ChunkFrame(chunks[k])]
framesBeforeDone(output, repaired) ==
  LET chunks == splitIntoStreamChunks(output, StreamChunkAtoms)
  IN [k \in 1..Len(chunks) |-> ChunkFrame(chunks[k])]
     \o (IF repaired THEN << MetaFrame >> ELSE << >>)
\* the frames handleGenerate writes for a result
framesOfResult_twoTerminals(output, repaired) ==
  framesBeforeDone(output, repaired) \o << DoneFrame, DoneFrame >>
framesOfResult(output, repaired) == framesBeforeDone(output, repaired) \o << DoneFrame >>

\* an artifact that passes validation, with its headings written loosely
ValidArtifact(targetAgent) ==
  Join(<< << HASH, SP, "final prompt" >>, << FENCE >> >>
       \o [k \in 1..7 |-> ContractLine(REQUIRED_PROMPT_CONTRACT_ITEMS[k])]
       \o << << FENCE >>, << HASH, HASH, SP, "adapter" >>, << WORD >>,
             WHY_HEADING, << WORD >>, << HASH, HASH, HASH, SP, "quality checklist" >>,
             << WORD >> >>,
       << NL >>)
\* texts a completion call returns: empty, prose, prose followed by a heading,
\* the core heading without a block, a valid artifact
ProviderTexts(targetAgent) ==
  { << >>, << WORD >>, << WORD, NL, HASH, HASH, SP, WORD >>,
    FINAL_PROMPT_HEADING \o << NL, WORD >>, ValidArtifact(targetAgent) }
\* last user messages: prose, prose quoting a fence
LastUserMessages == { << WORD >>, << WORD, SP, FENCE, SP, WORD >> }
PipelineAgents == {"universal", "claude-code"}
MsgProviderFailed == << "provider", "failed" >>

\* normalize, then validate: the two lines generatePromptArtifact runs on every
\* text it gets
assess(text, targetAgent) ==
  LET assessed(output) ==
        [output |-> output, validation |-> validateGeneratedPromptOutput(output, targetAgent)]
  IN assessed(normalizeGeneratedPromptOutput(text, targetAgent))

\* assess on the texts of the model, evaluated once
assessedText ==
  [targetAgent \in PipelineAgents |->
     [text \in ProviderTexts(targetAgent) |-> assess(text, targetAgent)]]
\* the fallback step on the outputs and requests of the model, evaluated once
assessedFallback ==
  [targetAgent \in PipelineAgents |->
     [userRequest \in LastUserMessages |->
        [draftOutput \in {assessedText[targetAgent][t].output : t \in ProviderTexts(targetAgent)} |->
           assess(buildFallbackCanonicalOutput(draftOutput, userRequest, targetAgent),
                  targetAgent)]]]

\* generatePromptArtifact from the fallback step on
withFallback(current, repaired, request) ==
  LET result(final) ==
        [output |-> final.output, validation |-> final.validation, repaired |-> repaired]
  IN result(IF current.validation.isValid THEN current
            ELSE assessedFallback[request.targetAgent][request.lastUserMessage][current.output])

Requests ==
  [handler : {"artifact", "direct"}, method : {"OPTIONS", "GET", "POST"},
   authorized : BOOLEAN, allowed : BOOLEAN,
   body : {"tooLarge", "badJson", "badPayload", "ok"}, skills : BOOLEAN,
   targetAgent : PipelineAgents, lastUserMessage : LastUserMessages, autoRepair : BOOLEAN]

Init ==
  /\ SseIdle
  /\ ExecIdle
  /\ FallbackIdle
  /\ ParseIdle
  /\ StabilityIdle
  /\ RateIdle
  /\ GuardIdle
  /\ SplitIdle
  /\ TrimIdle
  /\ ClientIdle
  /\ ChatIdle
  /\ genPc = "received"
  /\ genRequest \in Requests
  /\ genOutput = << >>
  /\ genValidation = NoValidation
  /\ genRepaired = FALSE
  /\ genOutcome = "none"
  /\ genFirst = << >> /\ genSteps = << >> /\ genDraft = NoDraft /\ genCancelled = FALSE
  /\ resStatus = 0 /\ resJson = FALSE /\ resFrames = << >> /\ resEnded = FALSE

\* sendJson, and the bare res.end of the OPTIONS branch
EndWith(status, json) ==
  /\ resStatus' = status
  /\ resJson' = json
  /\ resEnded' = TRUE
  /\ genPc' = "done"
  /\ UNCHANGED << resFrames, genRequest, genOutput, genValidation, genRepaired, genOutcome,
                  genFirst, genSteps, genDraft, genCancelled >>

\* handler and handleGenerate up to the first completion call
HandleRequest ==
  /\ genPc = "received"
  /\ IF genRequest.method = "OPTIONS" THEN EndWith(204, FALSE)
     ELSE IF ~genRequest.authorized THEN EndWith(401, TRUE)
     ELSE IF ~genRequest.allowed THEN EndWith(429, TRUE)
     ELSE IF genRequest.method # "POST" THEN EndWith(405, TRUE)
     ELSE IF genRequest.body = "tooLarge" THEN EndWith(413, TRUE)
     ELSE IF genRequest.body # "ok" THEN EndWith(400, TRUE)
     ELSE IF ~genRequest.skills THEN EndWith(500, TRUE)
     ELSE /\ resStatus' = 200
          /\ genPc' = IF genRequest.handler = "artifact" THEN "initial" ELSE "direct"
          /\ genSteps' = IF genRequest.handler = "artifact" THEN << "completion" >>
                          ELSE << >>
          /\ UNCHANGED << resJson, resFrames, resEnded, genRequest, genOutput, genValidation,
                          genRepaired, genOutcome, genFirst, genDraft, genCancelled >>
  /\ UNCHANGED notHandlerVars

\* the step of a validation, by its result
verdict(validation) == IF validation.isValid THEN "valid" ELSE "invalid"
\* a completion returned: normalize, validate
assessSteps(current) == << "normalize", verdict(current.validation) >>
\* the steps of generatePromptArtifact from the fallback step on
fallbackSteps(current, final) ==
  IF current.validation.isValid THEN << >>
  ELSE << "fallback", "normalize", verdict(final.validation) >>

\* if (!validation.isValid && shouldUseAutoRepair(envSource))
shouldRepair_whateverTheValidation(validation, request) == request.autoRepair
shouldRepair(validation, request) == ~validation.isValid /\ request.autoRepair

\* the catch of the repair call: output and validation stay as they were
keptAfterRepairFailure_emptied(output, validation) ==
  [output |-> << >>, validation |-> validation]
keptAfterRepairFailure(output, validation) ==
  [output |-> output, validation |-> validation]

\* generatePromptArtifact goes through its fallback step with the output it
\* holds and returns
Finishing(current, steps) ==
  /\ genSteps' = genSteps \o steps
                  \o fallbackSteps(current, withFallback(current, FALSE, genRequest))
  /\ genDraft' = IF current.validation.isValid THEN genDraft
                  ELSE [used |-> TRUE, draftOutput |-> current.output]
  /\ UNCHANGED genCancelled

\* generatePromptArtifact returned: handleGenerate writes the frames and ends
Respond(result) ==
  /\ genOutput' = result.output
  /\ genValidation' = result.validation
  /\ genRepaired' = result.repaired
  /\ genOutcome' = "returned"
  /\ resFrames' = resFrames \o framesOfResult(result.output, result.repaired)
  /\ resEnded' = TRUE
  /\ genPc' = "done"
  /\ UNCHANGED << genRequest, resStatus, resJson >>

\* the first completion call returns
InitialCompletionReturns ==
  /\ genPc = "initial"
  /\ \E text \in ProviderTexts(genRequest.targetAgent) :
       LET first == assessedText[genRequest.targetAgent][text]
       IN /\ genFirst' = text
          /\ IF shouldRepair(first.validation, genRequest)
             THEN /\ genOutput' = first.output
                  /\ genValidation' = first.validation
                  /\ genPc' = "repair"
                  /\ genSteps' = genSteps \o assessSteps(first) \o << "repair" >>
                  /\ UNCHANGED << genRequest, genRepaired, genOutcome, genDraft,
                                  genCancelled, resVars >>
             ELSE /\ Respond(withFallback(first, FALSE, genRequest))
                  /\ Finishing(first, assessSteps(first))
  /\ UNCHANGED notHandlerVars

\* the first completion call throws: the catch of handleGenerate
InitialCompletionThrows ==
  /\ genPc = "initial"
  /\ genOutcome' = "threw"
  /\ resFrames' = sendNdjson(resFrames, resEnded, ErrorFrame(MsgProviderFailed))
  /\ resEnded' = TRUE
  /\ genPc' = "done"
  /\ UNCHANGED << genRequest, genOutput, genValidation, genRepaired, genFirst, genSteps,
                  genDraft, genCancelled, resStatus, resJson, notHandlerVars >>

\* the repair completion call returns
RepairCompletionReturns ==
  /\ genPc = "repair"
  /\ \E text \in ProviderTexts(genRequest.targetAgent) :
       /\ Respond(withFallback(assessedText[genRequest.targetAgent][text], TRUE, genRequest))
       /\ Finishing(assessedText[genRequest.targetAgent][text],
                    assessSteps(assessedText[genRequest.targetAgent][text]))
       /\ UNCHANGED genFirst
  /\ UNCHANGED notHandlerVars

\* the repair completion call throws: the error is swallowed
RepairCompletionThrows ==
  /\ genPc = "repair"
  /\ Respond(withFallback(keptAfterRepairFailure(genOutput, genValidation), FALSE,
                          genRequest))
  /\ Finishing(keptAfterRepairFailure(genOutput, genValidation), << "repair failed" >>)
  /\ UNCHANGED genFirst
  /\ UNCHANGED notHandlerVars

\* streamFromOpenAICompatible relays a chunk of the provider
DirectChunk ==
  /\ genPc = "direct"
  /\ Len(resFrames) < MaxDirectChunks
  /\ \E text \in { << "A" >>, << "B" >> } :
       resFrames' = sendNdjson(resFrames, resEnded, ChunkFrame(text))
  /\ UNCHANGED << genVars, resStatus, resJson, resEnded, notHandlerVars >>

\* streamFromOpenAICompatible throws: the catch of handleGenerate
DirectThrows ==
  /\ genPc = "direct"
  /\ resFrames' = sendNdjson(resFrames, resEnded, ErrorFrame(MsgProviderFailed))
  /\ resEnded' = TRUE
  /\ genPc' = "done"
  /\ UNCHANGED << genRequest, genOutput, genValidation, genRepaired, genOutcome, genFirst,
                  genSteps, genDraft, genCancelled, resStatus, resJson, notHandlerVars >>

\* the provider stream ends
DirectEnds ==
  /\ genPc = "direct"
  /\ resFrames' = sendNdjson(resFrames, resEnded, DoneFrame)
  /\ resEnded' = TRUE
  /\ genPc' = "done"
  /\ UNCHANGED << genRequest, genOutput, genValidation, genRepaired, genOutcome, genFirst,
                  genSteps, genDraft, genCancelled, resStatus, resJson, notHandlerVars >>

\* the caller goes away while a completion call is awaited: nothing in
\* handler, handleGenerate, generatePromptArtifact or requestOnce listens
CallerDisconnects ==
  /\ genPc \in {"initial", "repair", "direct"}
  /\ ~genCancelled
  /\ genCancelled' = TRUE
  /\ UNCHANGED << genPc, genRequest, genOutput, genValidation, genRepaired, genOutcome,
                  genFirst, genSteps, genDraft, resVars, notHandlerVars >>

Next ==
  \/ HandleRequest
  \/ CallerDisconnects
  \/ InitialCompletionReturns
  \/ InitialCompletionThrows
  \/ RepairCompletionReturns
  \/ RepairCompletionThrows
  \/ DirectChunk
  \/ DirectThrows
  \/ DirectEnds
Spec == Init /\ [][Next]_vars

(***************************************************************************)
(* Properties of the handler                                               *)
(***************************************************************************)
FramesOfType(types) == SelectSeq(resFrames, LAMBDA f : f.type \in types)
ChunkText == Flatten([k \in 1..Len(FramesOfType({"chunk"})) |-> FramesOfType({"chunk"})[k].text])
Streaming == resStatus = 200 /\ ~resJson

\* C1: when generatePromptArtifact returns, the validation it returns is valid,
\* and the chunk frames of a response that ends with a done frame concatenate
\* to an artifact that passes validation for the target agent of the request.
C1_ReturnedArtifactIsValid ==
  genOutcome = "returned" =>
    /\ genValidation.isValid
    /\ validateGeneratedPromptOutput(ChunkText, genRequest.targetAgent).isValid

\* C3: once the stream headers are set, the frames written are chunk frames,
\* then at most one meta frame, then one terminal frame (done or error) once
\* the handler is through; the terminal frame is the last frame, the response
\* is ended with it, and the handler never finishes without it.
C3_OneTerminalFrame ==
  Streaming =>
    LET n == Len(resFrames)
        terminals == {k \in 1..n : resFrames[k].type \in {"done", "error"}}
        metas == {k \in 1..n : resFrames[k].type = "meta"}
        chunks == {k \in 1..n : resFrames[k].type = "chunk"}
    IN /\ Cardinality(terminals) <= 1
       /\ Cardinality(metas) <= 1
       /\ \A t \in terminals : t = n
       /\ \A m \in metas : \A c \in chunks : c < m
       /\ resEnded <=> terminals # {}
       /\ genPc = "done" <=> resEnded

C3_Witness ==
  /\ Streaming /\ resEnded
  /\ Len(FramesOfType({"chunk"})) >= 2
  /\ Len(FramesOfType({"meta"})) = 1
  /\ resFrames[Len(resFrames)].type = "done"

C3_WitnessErrorAfterChunks ==
  /\ Streaming /\ resEnded
  /\ Len(FramesOfType({"chunk"})) >= 1
  /\ resFrames[Len(resFrames)].type = "error"

\* C24: once the caller has gone away while a completion call is awaited, the
\* pipeline takes no further step for the request: no validation, no repair
\* call, no fallback synthesis, and generatePromptArtifact returns nothing.
C24_CancellationStopsPipeline ==
  [][genCancelled =>
       /\ genSteps' = genSteps
       /\ genDraft' = genDraft
       /\ genOutcome' # "returned"
       /\ genPc' # "repair"]_vars

\* the traces of generatePromptArtifact, by whether auto-repair is enabled
AllowedTraces(autoRepair) ==
  { << "completion", "normalize", "valid" >> }
  \cup (IF autoRepair
        THEN { << "completion", "normalize", "invalid", "repair", "normalize", "valid" >> }
             \cup { << "completion", "normalize", "invalid", "repair", "normalize",
                       "invalid", "fallback", "normalize", v >> : v \in {"valid", "invalid"} }
             \cup { << "completion", "normalize", "invalid", "repair", "repair failed",
                       "fallback", "normalize", v >> : v \in {"valid", "invalid"} }
        ELSE { << "completion", "normalize", "invalid", "fallback", "normalize", v >> :
                 v \in {"valid", "invalid"} })
IsPrefix(s, t) == Len(s) <= Len(t) /\ SubSeq(t, 1, Len(s)) = s
stepsNamed(name) == {i \in 1..Len(genSteps) : genSteps[i] = name}

\* C26: generatePromptArtifact goes through initial completion, normalize,
\* validate; a repair call only after an invalid first validation with
\* auto-repair enabled, once at most, followed by normalize and validate of the
\* repaired text; fallback, normalize and validate only when the most recent
\* validation is invalid.  A valid initial output is returned as normalized, with
\* no repair call, no fallback and repaired = false.
C26_StepsInOrder ==
  genRequest.handler = "artifact" =>
    /\ \E trace \in AllowedTraces(genRequest.autoRepair) : IsPrefix(genSteps, trace)
    /\ genOutcome = "returned" =>
         /\ genSteps \in AllowedTraces(genRequest.autoRepair)
         /\ genRepaired <=> \E i \in stepsNamed("repair") : genSteps[i + 1] = "normalize"
         /\ genDraft.used <=> stepsNamed("fallback") # {}
         /\ genSteps = << "completion", "normalize", "valid" >> =>
              /\ ~genRepaired /\ ~genDraft.used
              /\ genOutput =
                   normalizeGeneratedPromptOutput(genFirst, genRequest.targetAgent)

\* the three ways through: valid at once; repaired and valid; repaired, still
\* invalid and replaced by the fallback
C26_Witness ==
  /\ genOutcome = "returned"
  /\ genSteps = << "completion", "normalize", "invalid", "repair", "normalize",
                   "invalid", "fallback", "normalize", "valid" >>
  /\ genRepaired

\* C27: when the repair call fails generatePromptArtifact still returns and no
\* error reaches the caller; the output held before the repair call is kept,
\* repaired is false, there is no second repair call, and the fallback is built
\* from that output as its draft.
C27_RepairFailureSwallowed ==
  stepsNamed("repair failed") # {} =>
    /\ genOutcome = "returned"
    /\ ~genRepaired
    /\ Cardinality(stepsNamed("repair")) = 1
    /\ genDraft.used
    /\ genDraft.draftOutput =
         normalizeGeneratedPromptOutput(genFirst, genRequest.targetAgent)
    /\ FramesOfType({"error"}) = << >>
    /\ resFrames[Len(resFrames)].type = "done"

\* the repair call failed on the non-empty output of the first call
C27_Witness ==
  /\ stepsNamed("repair failed") # {}
  /\ genFirst # << >>
  /\ genOutcome = "returned"
  /\ genDraft.used /\ genDraft.draftOutput # << >>

\* C35: the chunk frames written to the caller are the chunks of the
\* provider, in arrival order, each written when it arrives: once text of the
\* provider has been received, the chunk frames written so far carry that text.
C35_ChunksSurfacedAsTheyArrive ==
  (genRequest.handler = "artifact" /\ genFirst # << >>) =>
    Trim(Flatten(ChunkTexts(resFrames))) = genFirst

\* the repair call was made and returned
repairReturned == \E i \in stepsNamed("repair") : genSteps[i + 1] = "normalize"

\* C37: the meta frame auto_repair_applied is written exactly when a repair
\* call was made and returned, whatever the validation of the repaired text
\* and whether or not the fallback artifact replaced it; it is written once,
\* after the last chunk frame and before the done frame; it is absent when
\* the first output was valid, when auto-repair is off and when the repair
\* call threw.
C37_MetaFrameIffRepairReturned ==
  (genRequest.handler = "artifact" /\ genOutcome = "returned") =>
    LET n == Len(resFrames)
        metas == {k \in 1..n : resFrames[k].type = "meta"}
        chunks == {k \in 1..n : resFrames[k].type = "chunk"}
    IN /\ metas # {} <=> repairReturned
       /\ Cardinality(metas) <= 1
       /\ \A m \in metas : /\ resFrames[m] = MetaFrame
                           /\ m = n - 1 /\ resFrames[n].type = "done"
                           /\ \A c \in chunks : c < m
       /\ genSteps[3] = "valid" => metas = {}
       /\ ~genRequest.autoRepair => metas = {}
       /\ stepsNamed("repair failed") # {} => metas = {}

\* a repaired text that was still invalid and was replaced by the fallback
\* artifact: the meta frame is there
C37_Witness ==
  /\ genOutcome = "returned"
  /\ genSteps = << "completion", "normalize", "invalid", "repair", "normalize",
                   "invalid", "fallback", "normalize", "valid" >>
  /\ Len(resFrames) >= 3
  /\ resFrames[Len(resFrames) - 1] = MetaFrame
  /\ resFrames[Len(resFrames)].type = "done"

(***************************************************************************)
(* SpecSplit: the loop of splitIntoStreamChunks, pass by pass, on every    *)
(* bounded output and chunk size, and the chunk frames handleGenerate      *)
(* writes for the chunks                                                   *)
(***************************************************************************)
MaxSplitLen == 5
MaxChunkSize == 3
\* the passes of the loop the model follows: one more than any output needs
MaxSplitPasses == MaxSplitLen + 1
SplitOutputs == TextsUpTo({"a", "b"}, MaxSplitLen)

\* index += chunkSize
nextIndex_byOne(index, chunkSize) == index + 1
nextIndex(index, chunkSize) == index + chunkSize

InitSplit ==
  /\ SseIdle
  /\ ExecIdle
  /\ FallbackIdle
  /\ HandlerIdle
  /\ ParseIdle
  /\ StabilityIdle
  /\ RateIdle
  /\ GuardIdle
  /\ TrimIdle
  /\ ClientIdle
  /\ ChatIdle
  /\ spPc = "called"
  /\ spOutput \in SplitOutputs
  /\ spChunkSize \in 0..MaxChunkSize
  /\ spIndex = 0
  /\ spChunks = << >>
  /\ spFrames = << >>

\* splitIntoStreamChunks up to the first test of the loop
SplitBegins ==
  /\ spPc = "called"
  /\ IF spOutput = << >>
     THEN spChunks' = << << >> >> /\ spPc' = "returned"
     ELSE spChunks' = << >> /\ spPc' = "loop"
  /\ UNCHANGED << spOutput, spChunkSize, spIndex, spFrames, notSplitVars >>

\* one pass of the loop: push the slice, add chunkSize to index, test
SplitPass ==
  /\ spPc = "loop"
  /\ Len(spChunks) < MaxSplitPasses
  /\ spChunks' = Append(spChunks,
                        Slice(spOutput, spIndex + 1,
                              Min({spIndex + spChunkSize, Len(spOutput)}) + 1))
  /\ spIndex' = nextIndex(spIndex, spChunkSize)
  /\ spPc' = IF spIndex' < Len(spOutput) THEN "loop" ELSE "returned"
  /\ UNCHANGED << spOutput, spChunkSize, spFrames, notSplitVars >>

\* handleGenerate: for (const chunk of chunks) sendNdjson(res, chunk frame)
SendChunks ==
  /\ spPc = "returned"
  /\ spFrames' = [k \in 1..Len(spChunks) |-> ChunkFrame(spChunks[k])]
  /\ spPc' = "sent"
  /\ UNCHANGED << spOutput, spChunkSize, spIndex, spChunks, notSplitVars >>

NextSplit ==
  \/ SplitBegins
  \/ SplitPass
  \/ SendChunks
SpecSplit == InitSplit /\ [][NextSplit]_vars

\* the loop ends within as many passes as the output has characters, and
\* what it returns is a lossless split into chunks of chunkSize, sent in order
losslessSplit ==
  /\ Len(spChunks) <= Max({1, Len(spOutput)})
  /\ spPc = "loop" => spIndex < Len(spOutput)
  /\ spPc \in {"returned", "sent"} =>
       /\ Flatten(spChunks) = spOutput
       /\ \A k \in 1..(Len(spChunks) - 1) : Len(spChunks[k]) = spChunkSize
       /\ IF spOutput = << >> THEN spChunks = << << >> >>
          ELSE /\ Len(spChunks[Len(spChunks)]) \in 1..spChunkSize
               /\ spChunks = splitIntoStreamChunks(spOutput, spChunkSize)
  /\ spPc = "sent" =>
       /\ \A k \in 1..Len(spFrames) : spFrames[k].type = "chunk"
       /\ Flatten([k \in 1..Len(spFrames) |-> spFrames[k].text]) = spOutput

\* C28 as stated: for every output and every chunk size splitIntoStreamChunks
\* terminates and returns a lossless split: the chunks concatenate to the
\* output, all but the last have chunkSize characters, the last has 1 to
\* chunkSize, an empty output gives one empty chunk; the chunk frames of the
\* handler concatenate to the output.
C28_LosslessSplit == losslessSplit

\* C28, amended: the same for every chunk size of 1 or more.
C28_LosslessSplitForPositiveSizes == spChunkSize >= 1 => losslessSplit

\* ten characters cut by 3 as in the test, scaled: five characters cut by 2
C28_Witness ==
  /\ spPc = "sent"
  /\ spOutput = << "a", "b", "a", "b", "a" >> /\ spChunkSize = 2
  /\ spChunks = << << "a", "b" >>, << "a", "b" >>, << "a" >> >>
  /\ Len(spFrames) = 3

(***************************************************************************)
(* SpecTrim: trimMessagesForContext and capStoredMessages on every bounded *)
(* list of messages and limit                                              *)
(***************************************************************************)
MaxMessages == 4
MaxTrimLimit == 3
MessageLists == TextsUpTo({"user", "assistant"}, MaxMessages)

\* the start of Array.prototype.slice(start): a negative start counts from the
\* end; -0 is 0
sliceStart(length, start) ==
  IF start < 0 THEN Max({length + start, 0}) ELSE Min({start, length})
\* messages.slice(-limit)
sliceLast(messages, limit) ==
  SubSeq(messages, sliceStart(Len(messages), 0 - limit) + 1, Len(messages))

trimMessagesForContext(messages, limit) ==
  IF Len(messages) <= limit THEN messages ELSE sliceLast(messages, limit)
capStoredMessages(messages, limit) ==
  IF Len(messages) <= limit THEN messages ELSE sliceLast(messages, limit)

\* the messages carry their position in the list as id
Numbered(roles) == [k \in 1..Len(roles) |-> [id |-> k, role |-> roles[k]]]

InitTrim ==
  /\ SseIdle
  /\ ExecIdle
  /\ FallbackIdle
  /\ HandlerIdle
  /\ ParseIdle
  /\ StabilityIdle
  /\ RateIdle
  /\ GuardIdle
  /\ SplitIdle
  /\ ClientIdle
  /\ ChatIdle
  /\ tmPc = "input"
  /\ tmFunction \in {"trimMessagesForContext", "capStoredMessages"}
  /\ tmMessages \in {Numbered(roles) : roles \in MessageLists}
  /\ tmLimit \in 0..MaxTrimLimit
  /\ tmResult = << >>

TrimForContext ==
  /\ tmPc = "input"
  /\ tmFunction = "trimMessagesForContext"
  /\ tmResult' = trimMessagesForContext(tmMessages, tmLimit)
  /\ tmPc' = "trimmed"
  /\ UNCHANGED << tmFunction, tmMessages, tmLimit, notTrimVars >>

CapStored ==
  /\ tmPc = "input"
  /\ tmFunction = "capStoredMessages"
  /\ tmResult' = capStoredMessages(tmMessages, tmLimit)
  /\ tmPc' = "trimmed"
  /\ UNCHANGED << tmFunction, tmMessages, tmLimit, notTrimVars >>

NextTrim ==
  \/ TrimForContext
  \/ CapStored
SpecTrim == InitTrim /\ [][NextTrim]_vars

\* C29: for every list and every limit of 0 or more, the result is the last
\* min(length, limit) messages in their order: it never has more than limit
\* messages, and a list of at most limit messages is returned unchanged.
C29_KeepsMostRecent ==
  tmPc = "trimmed" =>
    /\ Len(tmResult) = Min({Len(tmMessages), tmLimit})
    /\ \A k \in 1..Len(tmResult) :
         tmResult[k] = tmMessages[Len(tmMessages) - Len(tmResult) + k]
    /\ Len(tmResult) <= tmLimit
    /\ Len(tmMessages) <= tmLimit => tmResult = tmMessages

\* C29 for limits of 1 or more
C29_KeepsMostRecentForPositiveLimits ==
  (tmPc = "trimmed" /\ tmLimit >= 1) =>
    /\ Len(tmResult) = Min({Len(tmMessages), tmLimit})
    /\ \A k \in 1..Len(tmResult) :
         tmResult[k] = tmMessages[Len(tmMessages) - Len(tmResult) + k]
    /\ Len(tmMessages) <= tmLimit => tmResult = tmMessages

(***************************************************************************)
(* SpecClient: streamAssistantResponse reading a response of /api/generate *)
(* whose bytes arrive in reads of every bounded size                       *)
(***************************************************************************)
MaxClientLines == 3
MaxReadBytes == 3

\* JSON.stringify of a frame, up to the text and after it
OBJ_CHUNK == "{\"type\":\"chunk\",\"text\":\""
OBJ_ERROR == "{\"type\":\"error\",\"message\":\""
OBJ_END == "\"}"
OBJ_DONE == "{\"type\":\"done\"}"
\* a JSON object of a type the client does not know
OBJ_PING == "{\"type\":\"ping\"}"
NOT_JSON == "not-json"
BACKSLASH == "\\"

\* the characters of a JSON string: a line feed is written as \n
escapeChar(c) == IF c = NL THEN << BACKSLASH, "n" >> ELSE << c >>
escapeString(text) == Flatten([k \in 1..Len(text) |-> escapeChar(text[k])])
validString(inner) ==
  /\ \A k \in 1..Len(inner) : inner[k] \notin {NL, OBJ_CHUNK, OBJ_ERROR, OBJ_END, OBJ_DONE, OBJ_PING, NOT_JSON}
  /\ \A k \in 1..Len(inner) :
       inner[k] = BACKSLASH => (k < Len(inner) /\ inner[k + 1] = "n")
RECURSIVE unescapeString(_)
unescapeString(inner) ==
  IF inner = << >> THEN << >>
  ELSE IF Head(inner) = BACKSLASH /\ Len(inner) >= 2
  THEN << NL >> \o unescapeString(Tail(Tail(inner)))
  ELSE << Head(inner) >> \o unescapeString(Tail(inner))

\* `${JSON.stringify(payload)}` of sendNdjson
stringify(frame) ==
  IF frame.type = "chunk" THEN << OBJ_CHUNK >> \o escapeString(frame.text) \o << OBJ_END >>
  ELSE IF frame.type = "error" THEN << OBJ_ERROR >> \o escapeString(frame.text) \o << OBJ_END >>
  ELSE IF frame.type = "done" THEN << OBJ_DONE >>
  ELSE << OBJ_PING >>

NullEvent == [type |-> "null", text |-> << >>]
\* JSON.parse and the tests of parseEvent on the payload
eventOfJson(trimmed) ==
  IF trimmed = << OBJ_DONE >> THEN DoneFrame
  ELSE IF /\ Len(trimmed) >= 2
          /\ trimmed[1] \in {OBJ_CHUNK, OBJ_ERROR}
          /\ trimmed[Len(trimmed)] = OBJ_END
          /\ validString(SubSeq(trimmed, 2, Len(trimmed) - 1))
  THEN IF trimmed[1] = OBJ_CHUNK
       THEN ChunkFrame(unescapeString(SubSeq(trimmed, 2, Len(trimmed) - 1)))
       ELSE ErrorFrame(unescapeString(SubSeq(trimmed, 2, Len(trimmed) - 1)))
  ELSE NullEvent
parseEvent(line) ==
  IF Trim(line) = << >> THEN NullEvent ELSE eventOfJson(Trim(line))

parseNdjsonEvents(buffer) ==
  LET events(lines) == SelectSeq([k \in 1..Len(lines) |-> parseEvent(lines[k])],
                                 LAMBDA event : event # NullEvent)
  IN events(SplitLines(buffer))

DEFAULT_ERROR_MESSAGE == << "Request failed. Please try again." >>
clientErrorMessage(value) == IF Trim(value) # << >> THEN value ELSE DEFAULT_ERROR_MESSAGE

\* decoder.decode(value, { stream: true }): the bytes of a character that is
\* not complete are held back for the next call
decodeStream_eachReadAlone(pending, value) == [text |-> decodeUtf8(value), pending |-> << >>]
decodeStream(pending, value) ==
  LET decoded(all) ==
        IF all # << >> /\ all[Len(all)] = LEAD
        THEN [text |-> decodeUtf8(SubSeq(all, 1, Len(all) - 1)), pending |-> << LEAD >>]
        ELSE [text |-> decodeUtf8(all), pending |-> << >>]
  IN decoded(pending \o value)

\* for (const event of parseNdjsonEvents(...)): onChunk for a chunk, throw at
\* an error
dispatchEvents(events, delivered) ==
  LET errors == {k \in 1..Len(events) : events[k].type = "error"}
      upTo == IF errors = {} THEN Len(events) ELSE Min(errors)
      chunks == SelectSeq(SubSeq(events, 1, upTo), LAMBDA event : event.type = "chunk")
  IN [delivered |-> delivered \o [k \in 1..Len(chunks) |-> chunks[k].text],
      threw |-> errors # {},
      message |-> IF errors = {} THEN << >> ELSE clientErrorMessage(events[Min(errors)].text)]

lastIndexOfNewline(buffer) ==
  LET nls == {k \in 1..Len(buffer) : buffer[k] = NL}
  IN IF nls = {} THEN 0 ELSE Max(nls)

\* readErrorResponse
readErrorResponse(response) ==
  IF response = "notOk" THEN << "Unauthorized." >> ELSE << "Request failed with status 500." >>

ClientTexts == {<< >>, << "h" >>, << SP >>, << NL >>, << EACUTE >>}
\* what the server writes, and lines that are no frames
ClientLineForms ==
  {ChunkFrame(text) : text \in ClientTexts}
  \cup {DoneFrame, ErrorFrame(<< "boom" >>)}
  \cup {[type |-> "ping", text |-> << >>]}
  \cup {[type |-> "raw", text |-> line] : line \in {<< NOT_JSON >>, << >>}}
lineText(line) == IF line.type = "raw" THEN line.text ELSE stringify(line)
\* the lines, each followed by a line feed, the last one with or without
wireText(lines, lastNewline) ==
  LET all == Flatten([k \in 1..Len(lines) |-> lineText(lines[k]) \o << NL >>])
  IN IF lastNewline \/ lines = << >> THEN all ELSE SubSeq(all, 1, Len(all) - 1)

InitClient ==
  /\ SseIdle
  /\ ExecIdle
  /\ FallbackIdle
  /\ HandlerIdle
  /\ ParseIdle
  /\ StabilityIdle
  /\ RateIdle
  /\ GuardIdle
  /\ SplitIdle
  /\ TrimIdle
  /\ ChatIdle
  /\ clPc = "fetching"
  /\ clResponse \in {"stream", "notOk", "notOkNoJson", "noBody"}
  /\ clLines \in IF clResponse = "stream" THEN SeqsUpTo(ClientLineForms, MaxClientLines)
                 ELSE {<< >>}
  /\ clStream \in {encodeUtf8(wireText(clLines, lastNewline)) : lastNewline \in BOOLEAN}
  /\ clPos = 0
  /\ clPending = << >>
  /\ clBuffer = << >>
  /\ clDelivered = << >>
  /\ clError = << >>
  /\ clCutChar = FALSE
  /\ clCutLine = FALSE

\* await fetch(...), then the tests of response.ok and response.body
ClientFetch ==
  /\ clPc = "fetching"
  /\ IF clResponse \in {"notOk", "notOkNoJson"}
     THEN clPc' = "rejected" /\ clError' = readErrorResponse(clResponse)
     ELSE IF clResponse = "noBody"
     THEN clPc' = "rejected" /\ clError' = << "No response stream returned by server." >>
     ELSE clPc' = "reading" /\ clError' = clError
  /\ UNCHANGED << clResponse, clLines, clStream, clPos, clPending, clBuffer,
                  clDelivered, clCutChar, clCutLine, notClientVars >>

\* one pass of the while loop with done false
ClientReadValue ==
  /\ clPc = "reading"
  /\ clPos < Len(clStream)
  /\ \E size \in 1..MaxReadBytes :
       LET step(decoded) ==
             LET buffer == clBuffer \o decoded.text
                 lastNewline == lastIndexOfNewline(buffer)
                 result == dispatchEvents(parseNdjsonEvents(SubSeq(buffer, 1, lastNewline - 1)),
                                          clDelivered)
             IN /\ clPending' = decoded.pending
                /\ clCutChar' = (clCutChar \/ decoded.pending # << >>)
                /\ IF lastNewline = 0
                   THEN /\ clBuffer' = buffer
                        /\ clCutLine' = TRUE
                        /\ UNCHANGED << clPc, clDelivered, clError >>
                   ELSE /\ clBuffer' = SubSeq(buffer, lastNewline + 1, Len(buffer))
                        /\ clCutLine' = (clCutLine \/ lastNewline < Len(buffer)
                                                   \/ decoded.pending # << >>)
                        /\ clDelivered' = result.delivered
                        /\ clPc' = IF result.threw THEN "rejected" ELSE "reading"
                        /\ clError' = IF result.threw THEN result.message ELSE clError
       IN /\ clPos' = Min({clPos + size, Len(clStream)})
          /\ step(decodeStream(clPending, SubSeq(clStream, clPos + 1, clPos')))
  /\ UNCHANGED << clResponse, clLines, clStream, notClientVars >>

\* the read with done true, and what follows the loop
ClientReadDone ==
  /\ clPc = "reading"
  /\ clPos = Len(clStream)
  /\ LET result == dispatchEvents(parseNdjsonEvents(clBuffer), clDelivered)
     IN IF Trim(clBuffer) # << >>
        THEN /\ clDelivered' = result.delivered
             /\ clPc' = IF result.threw THEN "rejected" ELSE "resolved"
             /\ clError' = IF result.threw THEN result.message ELSE clError
        ELSE /\ clPc' = "resolved"
             /\ UNCHANGED << clDelivered, clError >>
  /\ UNCHANGED << clResponse, clLines, clStream, clPos, clPending, clBuffer,
                  clCutChar, clCutLine, notClientVars >>

NextClient ==
  \/ ClientFetch
  \/ ClientReadValue
  \/ ClientReadDone
SpecClient == InitClient /\ [][NextClient]_vars

\* the frames among the lines written, the texts of the chunk frames before
\* the first error frame, and the first error frame
errorLines == {k \in 1..Len(clLines) : clLines[k].type = "error"}
chunkTextsBeforeError ==
  LET before == SubSeq(clLines, 1, IF errorLines = {} THEN Len(clLines) ELSE Min(errorLines))
      chunks == SelectSeq(before, LAMBDA line : line.type = "chunk")
  IN [k \in 1..Len(chunks) |-> chunks[k].text]

\* C30: whatever the reads, onChunk gets the texts of the chunk frames in the
\* order written; lines that are no frames are ignored; the promise rejects
\* at the first error frame with its message, after every chunk before it and
\* no chunk after it, and resolves with every chunk when there is none.
C30_ChunksInOrderUntilFirstError ==
  clResponse = "stream" =>
    /\ IsPrefix(clDelivered, chunkTextsBeforeError)
    /\ clPc = "resolved" => (errorLines = {} /\ clDelivered = chunkTextsBeforeError)
    /\ clPc = "rejected" =>
         /\ errorLines # {}
         /\ clDelivered = chunkTextsBeforeError
         /\ clError = clLines[Min(errorLines)].text

\* a two-byte character cut by a read, a line that is no frame, then an
\* error frame followed by a chunk frame
C30_Witness ==
  /\ clPc = "rejected"
  /\ clCutChar /\ clCutLine
  /\ clLines = << ChunkFrame(<< EACUTE >>), ErrorFrame(<< "boom" >>), ChunkFrame(<< "h" >>) >>
  /\ clDelivered = << << EACUTE >> >>
  /\ clError = << "boom" >>
(***************************************************************************)
(* SpecChat: the usePromptChat hook: sendMessage, the stream of its        *)
(* request, cancelGeneration, dismissError and the renders of the          *)
(* component                                                               *)
(***************************************************************************)
MaxCalls == 3
MaxChatChunks == 1
MAX_CONTEXT_MESSAGES == 20
MAX_STORED_MESSAGES == 80

\* what sendMessage is called with, and what its stream brings and fails with
RawContents == { << SP >>, << SP, "hello", SP >> }
ChatChunkTexts == { << "x" >> }
ChatErrorMessages == { << SP >>, << "boom" >> }

NoGeneration == [userId |-> 0, assistantId |-> 0, userContent |-> << >>]
CHAT_ERROR_MESSAGE == << "I encountered an error while generating. Please try again." >>
\* toErrorMessage of the hook, on the message of the Error thrown
chatErrorMessage(message) == IF Trim(message) # << >> THEN message ELSE CHAT_ERROR_MESSAGE

\* createMessageId: the ids of the two messages of a call
userIdOf(call) == 2 * call - 1
assistantIdOf(call) == 2 * call

Message(id, role, content) == [id |-> id, role |-> role, content |-> content]
\* prev.map(message => message.id === id ? { ...message, content } : message)
withContent(messages, id, content) ==
  [k \in 1..Len(messages) |->
     IF messages[k].id = id THEN Message(id, messages[k].role, content) ELSE messages[k]]
isOfGeneration_assistantOnly(entry, active) == entry.id = active.assistantId
isOfGeneration(entry, active) ==
  entry.id = active.userId \/ entry.id = active.assistantId
\* prev.filter(entry => entry.id !== active.userId && entry.id !== active.assistantId)
RECURSIVE withoutGeneration(_, _)
withoutGeneration(messages, active) ==
  IF messages = << >> THEN << >>
  ELSE IF isOfGeneration(Head(messages), active)
       THEN withoutGeneration(Tail(messages), active)
       ELSE << Head(messages) >> \o withoutGeneration(Tail(messages), active)

\* the guard of sendMessage: status is the status of the render that made
\* the callback
refuses(content, status) == content = << >> \/ status = "GENERATING"

Refused ==
  [started |-> FALSE, pc |-> "settled", aborted |-> FALSE, userId |-> 0,
   assistantId |-> 0, context |-> << >>, fullContent |-> << >>, chunks |-> 0,
   outcome |-> "refused", error |-> << >>, returned |-> "false"]
Started(call, context) ==
  [started |-> TRUE, pc |-> "streaming", aborted |-> FALSE, userId |-> userIdOf(call),
   assistantId |-> assistantIdOf(call), context |-> context, fullContent |-> << >>,
   chunks |-> 0, outcome |-> "none", error |-> << >>, returned |-> "pending"]
Settled(call, outcome, error, returned) ==
  [call EXCEPT !.pc = "settled", !.outcome = outcome, !.error = error,
               !.returned = returned]

inFlight == {c \in 1..Len(chCalls) : chCalls[c].pc = "streaming"}
\* an aborted signal rejects the pending fetch or read at once; the catch of
\* that call runs before any other task
abortPending == \E c \in inFlight : chCalls[c].aborted

InitChat ==
  /\ SseIdle
  /\ ExecIdle
  /\ FallbackIdle
  /\ HandlerIdle
  /\ ParseIdle
  /\ StabilityIdle
  /\ RateIdle
  /\ GuardIdle
  /\ SplitIdle
  /\ TrimIdle
  /\ ClientIdle
  /\ chMessages = << >> /\ chStatus = "IDLE" /\ chRendered = "IDLE"
  /\ chMessagesRef = << >> /\ chActiveRequest = 0
  /\ chActiveGeneration = NoGeneration
  /\ chCalls = << >>

\* sendMessage up to its await
SendMessage(rawContent) ==
  /\ Len(chCalls) < MaxCalls
  /\ ~abortPending
  /\ LET begun(content, call) ==
           IF refuses(content, chRendered)
           THEN /\ chCalls' = Append(chCalls, Refused)
                /\ UNCHANGED << chMessages, chStatus, chActiveRequest, chActiveGeneration >>
           ELSE /\ chActiveGeneration' =
                     [userId |-> userIdOf(call), assistantId |-> assistantIdOf(call),
                      userContent |-> content]
                /\ chMessages' =
                     capStoredMessages(
                       chMessages \o << Message(userIdOf(call), "user", content),
                                        Message(assistantIdOf(call), "assistant", << >>) >>,
                       MAX_STORED_MESSAGES)
                /\ chStatus' = "GENERATING"
                /\ chActiveRequest' = call
                /\ chCalls' =
                     Append(chCalls,
                            Started(call,
                                    trimMessagesForContext(
                                      chMessagesRef \o << Message(userIdOf(call), "user", content) >>,
                                      MAX_CONTEXT_MESSAGES)))
     IN begun(Trim(rawContent), Len(chCalls) + 1)
  /\ UNCHANGED << chRendered, chMessagesRef, notChatVars >>

\* onChunk
StreamChunk(c, chunk) ==
  /\ c \in inFlight
  /\ ~abortPending
  /\ chCalls[c].chunks < MaxChatChunks
  /\ LET fullContent == chCalls[c].fullContent \o chunk
     IN /\ chCalls' = [chCalls EXCEPT ![c].fullContent = fullContent,
                                      ![c].chunks = chCalls[c].chunks + 1]
        /\ chMessages' =
             capStoredMessages(withContent(chMessages, chCalls[c].assistantId, fullContent),
                               MAX_STORED_MESSAGES)
  /\ UNCHANGED << chStatus, chRendered, chMessagesRef, chActiveRequest,
                  chActiveGeneration, notChatVars >>

\* finally
requestAfter(c) == IF chActiveRequest = c THEN 0 ELSE chActiveRequest

\* streamAssistantResponse resolved
StreamResolves(c) ==
  /\ c \in inFlight
  /\ ~abortPending
  /\ chStatus' = "IDLE"
  /\ chActiveGeneration' = NoGeneration
  /\ chCalls' = [chCalls EXCEPT ![c] = Settled(chCalls[c], "resolved", << >>, "true")]
  /\ chActiveRequest' = requestAfter(c)
  /\ UNCHANGED << chMessages, chRendered, chMessagesRef, notChatVars >>

\* the catch of sendMessage with the signal aborted
StreamAborted(c) ==
  /\ c \in inFlight
  /\ chCalls[c].aborted
  /\ chStatus' = "IDLE"
  /\ chMessages' =
       IF chActiveGeneration # NoGeneration
       THEN capStoredMessages(withoutGeneration(chMessages, chActiveGeneration),
                              MAX_STORED_MESSAGES)
       ELSE chMessages
  /\ chActiveGeneration' = NoGeneration
  /\ chCalls' = [chCalls EXCEPT ![c] = Settled(chCalls[c], "aborted", << >>, "false")]
  /\ chActiveRequest' = requestAfter(c)
  /\ UNCHANGED << chRendered, chMessagesRef, notChatVars >>

\* the catch of sendMessage with the signal not aborted
StreamRejects(c, message) ==
  /\ c \in inFlight
  /\ ~abortPending
  /\ chStatus' = "ERROR"
  /\ chMessages' =
       capStoredMessages(withContent(chMessages, chCalls[c].assistantId,
                                     chatErrorMessage(message)),
                         MAX_STORED_MESSAGES)
  /\ chActiveGeneration' = NoGeneration
  /\ chCalls' = [chCalls EXCEPT ![c] = Settled(chCalls[c], "rejected", message, "false")]
  /\ chActiveRequest' = requestAfter(c)
  /\ UNCHANGED << chRendered, chMessagesRef, notChatVars >>

CancelGeneration ==
  /\ ~abortPending
  /\ IF chActiveGeneration = NoGeneration
     THEN UNCHANGED chCalls
     ELSE chCalls' =
            IF chActiveRequest # 0
            THEN [chCalls EXCEPT ![chActiveRequest].aborted = TRUE]
            ELSE chCalls
  /\ UNCHANGED << chMessages, chStatus, chRendered, chMessagesRef, chActiveRequest,
                  chActiveGeneration, notChatVars >>

DismissError ==
  /\ ~abortPending
  /\ chStatus' = IF chStatus = "ERROR" THEN "IDLE" ELSE chStatus
  /\ UNCHANGED << chMessages, chRendered, chMessagesRef, chActiveRequest,
                  chActiveGeneration, chCalls, notChatVars >>

\* the component renders with the state as it is: sendMessage is made anew
\* for the status, and the effect stores the messages in messagesRef
Render ==
  /\ ~abortPending
  /\ chRendered # chStatus \/ chMessagesRef # chMessages
  /\ chRendered' = chStatus
  /\ chMessagesRef' = chMessages
  /\ UNCHANGED << chMessages, chStatus, chActiveRequest, chActiveGeneration, chCalls,
                  notChatVars >>

StreamEnds(c) ==
  \/ StreamResolves(c)
  \/ \E message \in ChatErrorMessages : StreamRejects(c, message)

NextChat ==
  \/ \E rawContent \in RawContents : SendMessage(rawContent)
  \/ \E c \in 1..MaxCalls, chunk \in ChatChunkTexts : StreamChunk(c, chunk)
  \/ \E c \in 1..MaxCalls : StreamEnds(c)
  \/ \E c \in 1..MaxCalls : StreamAborted(c)
  \/ CancelGeneration
  \/ DismissError
  \/ Render
SpecChat == InitChat /\ [][NextChat]_vars
\* the catch of an aborted call is not put off, and the server ends every
\* response it began
SpecChatLive ==
  /\ SpecChat
  /\ WF_vars(\E c \in 1..MaxCalls : StreamAborted(c))
  /\ \A c \in 1..MaxCalls : WF_vars(StreamEnds(c))

\* a call of sendMessage was made in this step
callMade == Len(chCalls') = Len(chCalls) + 1

\* C39: a sendMessage call made while a call is in flight returns false,
\* appends no message, issues no request and leaves the active abort
\* controller as it is; at most one generation is in flight.
C39_SingleGenerationInFlight ==
  [][(callMade /\ inFlight # {}) =>
       /\ chCalls'[Len(chCalls')].returned = "false"
       /\ ~chCalls'[Len(chCalls')].started
       /\ UNCHANGED << chMessages, chActiveRequest, chActiveGeneration, chStatus >>]_vars

\* C39 for the calls made with the sendMessage of a render that has the
\* GENERATING status
C39_RefusedOnceRendered ==
  [][(callMade /\ chRendered = "GENERATING") =>
       /\ chCalls'[Len(chCalls')].returned = "false"
       /\ ~chCalls'[Len(chCalls')].started
       /\ UNCHANGED << chMessages, chActiveRequest, chActiveGeneration, chStatus >>]_vars
\* at most one call of sendMessage is in flight
C39_AtMostOneInFlight == Cardinality(inFlight) <= 1

\* the call c of sendMessage settles in this step
settles(c) == c \in inFlight /\ chCalls'[c].pc = "settled"
\* the stored messages but those with the ids of the call
othersThan(messages, call) ==
  SelectSeq(messages, LAMBDA m : m.id \notin {call.userId, call.assistantId})
settledAsSaid(c) ==
  LET call == chCalls[c]
      after == chCalls'[c]
  IN /\ chStatus' # "GENERATING"
     /\ after.returned \in {"true", "false"}
     /\ call.aborted =>
          /\ chStatus' = "IDLE"
          /\ after.returned = "false"
          /\ chMessages' = othersThan(chMessages, call)
     /\ (~call.aborted /\ after.outcome = "resolved") =>
          /\ chStatus' = "IDLE"
          /\ after.returned = "true"
          /\ chMessages' = chMessages
     /\ (~call.aborted /\ after.outcome = "rejected") =>
          /\ chStatus' = "ERROR"
          /\ after.returned = "false"
          /\ Len(chMessages') = Len(chMessages)
          /\ \E k \in 1..Len(chMessages) : chMessages[k].id = call.assistantId
          /\ \A k \in 1..Len(chMessages) :
               chMessages'[k] =
                 IF chMessages[k].id = call.assistantId
                 THEN Message(call.assistantId, "assistant", chatErrorMessage(after.error))
                 ELSE chMessages[k]
\* the status changes in this step and no call of sendMessage begins or settles
statusChangedByItself ==
  /\ chStatus' # chStatus
  /\ Len(chCalls') = Len(chCalls)
  /\ \A c \in 1..Len(chCalls) : chCalls'[c].pc = chCalls[c].pc

====
